---------------------------- MODULE Spec2Model ----------------------------
(***************************************************************************)
(* A model of the CLIP client library (github.com/feelancer21/clip):       *)
(* the signed-record model (Event, Identifier), Event.Verify, and the      *)
(* in-memory trust store (MapStore).                                       *)
(*                                                                         *)
(* Go values are modelled as follows.                                      *)
(*  - A Go string is a sequence of tokens.  A token is a TLA+ string that  *)
(*    stands for a non-empty run of characters holding no ':'; the one     *)
(*    token ":" is the colon itself.  The empty Go string is <<>>.         *)
(*    Digits and signs are one-character tokens, so that strconv.Atoi and  *)
(*    strconv.Itoa are computed, not assumed.                              *)
(*  - A nostr.Tag is a sequence of Go strings, nostr.Tags a sequence of    *)
(*    tags.                                                                *)
(*  - A nil pointer is <<>>, a non-nil pointer to x is <<x>>.              *)
(*  - A Go error is a TLA+ string; the nil error is the string "nil".      *)
(***************************************************************************)
EXTENDS Integers, Sequences, FiniteSets, TLC

(***************************************************************************)
(* Bounds of the model.                                                    *)
(***************************************************************************)
\* the created_at values of the Node Announcements offered to the store are
\* 0 and 1..MaxTime, those of the Node Infos are 1..MaxInfoTime
MaxTime == 3
MaxInfoTime == 2

(***************************************************************************)
(* Program constants (event.go).                                           *)
(***************************************************************************)
KindLightningInformation == 38171
KindNodeAnnouncement == 0
KindNodeInfo == 1
MaxContentSize == 1048576
EventGracePeriodSeconds == 600

(***************************************************************************)
(* Go strings.                                                             *)
(***************************************************************************)
Colon == ":"
EmptyStr == <<>>
Str(tok) == <<tok>>

Nil == <<>>
Ptr(x) == <<x>>
Deref(p) == p[1]

NoError == "nil"

\* strings.Split(s, ":")
RECURSIVE Split(_)
Split(s) ==
    IF \A i \in 1..Len(s) : s[i] # Colon
    THEN <<s>>
    ELSE LET i == CHOOSE j \in 1..Len(s) :
                     s[j] = Colon /\ \A h \in 1..(j - 1) : s[h] # Colon
         IN  <<SubSeq(s, 1, i - 1)>> \o Split(SubSeq(s, i + 1, Len(s)))

\* strings.Join(parts, ":")
RECURSIVE Join(_)
Join(parts) ==
    IF Len(parts) = 0 THEN EmptyStr
    ELSE IF Len(parts) = 1 THEN parts[1]
    ELSE parts[1] \o <<Colon>> \o Join(Tail(parts))

Digits == <<"0", "1", "2", "3", "4", "5", "6", "7", "8", "9">>
IsDigit(tok) == \E d \in 1..10 : Digits[d] = tok
DigitValue(tok) == (CHOOSE d \in 1..10 : Digits[d] = tok) - 1

\* the value of a non-empty run of decimal digits
RECURSIVE DigitsValue(_)
DigitsValue(s) ==
    IF Len(s) = 0 THEN 0
    ELSE 10 * DigitsValue(SubSeq(s, 1, Len(s) - 1)) + DigitValue(s[Len(s)])

\* strconv.Atoi(s): [ok, val].  An optional sign, then one or more digits.
Atoi(s) ==
    LET signed == Len(s) > 0 /\ s[1] \in {"+", "-"}
        body   == IF signed THEN Tail(s) ELSE s
    IN  IF Len(body) = 0 \/ \E i \in 1..Len(body) : ~IsDigit(body[i])
        THEN [ok |-> FALSE, val |-> 0]
        ELSE [ok |-> TRUE,
              val |-> IF signed /\ s[1] = "-" THEN 0 - DigitsValue(body)
                      ELSE DigitsValue(body)]

\* strconv.Itoa(n)
RECURSIVE NatStr(_)
NatStr(n) ==
    IF n < 10 THEN <<Digits[n + 1]>>
    ELSE NatStr(n \div 10) \o <<Digits[(n % 10) + 1]>>

Itoa(n) == IF n < 0 THEN <<"-">> \o NatStr(0 - n) ELSE NatStr(n)

(***************************************************************************)
(* nostr.Tags.                                                             *)
(***************************************************************************)
TagD == Str("d")
TagK == Str("k")
TagSig == Str("sig")

\* Mutant: the last tag named key
FindLast(tags, key) ==
    LET hits == {i \in 1..Len(tags) : Len(tags[i]) >= 2 /\ tags[i][1] = key}
    IN  IF hits = {} THEN Nil
        ELSE Ptr(tags[CHOOSE i \in hits : \A j \in hits : i >= j])

\* nostr.Tags.Find(key): a pointer to the first tag named key that has a
\* value (at least two items), nil when there is none
Find(tags, key) ==
    LET hits == {i \in 1..Len(tags) : Len(tags[i]) >= 2 /\ tags[i][1] = key}
    IN  IF hits = {} THEN Nil
        ELSE Ptr(tags[CHOOSE i \in hits : \A j \in hits : i <= j])

\* nostr.Tags.FindAll(key): every tag named key that has a value, in order
RECURSIVE FindAll(_, _)
FindAll(tags, key) ==
    IF Len(tags) = 0 THEN <<>>
    ELSE (IF Len(Head(tags)) >= 2 /\ Head(tags)[1] = key
          THEN <<Head(tags)>> ELSE <<>>) \o FindAll(Tail(tags), key)

(***************************************************************************)
(* nostr.Event and clip.Event.                                             *)
(*                                                                         *)
(* nostr.Event  = [PubKey, CreatedAt, Kind, Tags, Content, ID, Sig]        *)
(* clip.Event   = [NostrEvent, kind, finalized, id]   (id: nil or pointer) *)
(* Identifier   = [TagD, Network, PubKey, Kind, Opts]                      *)
(***************************************************************************)
ErrMissingTagD == "missing or invalid 'd' tag"
ErrMissingTagK == "missing or invalid 'k' tag"
ErrInvalidKind == "invalid kind in 'k' tag"
ErrInvalidTagDFormat == "invalid 'd' tag format for kind"

\* nostr.Event.GetID(): the hash of the canonical serialization
\* [0, pubkey, created_at, kind, tags, content].  The hash is modelled as
\* collision free: it is the serialized tuple itself.
GetID(ne) ==
    [PubKey |-> ne.PubKey, CreatedAt |-> ne.CreatedAt, Kind |-> ne.Kind,
     Tags |-> ne.Tags, Content |-> ne.Content]

\* Event.GetIdentifier(): [e, id, err]; e is the event with its cache filled
GetIdentifier(e) ==
    IF e.id # Nil THEN [e |-> e, id |-> e.id, err |-> NoError]
    ELSE
    LET tagD == Find(e.NostrEvent.Tags, TagD)
        tagK == Find(e.NostrEvent.Tags, TagK)
    IN  IF tagD = Nil \/ Len(Deref(tagD)) < 2
        THEN [e |-> e, id |-> Nil, err |-> ErrMissingTagD]
        ELSE IF tagK = Nil \/ Len(Deref(tagK)) < 2
        THEN [e |-> e, id |-> Nil, err |-> ErrMissingTagK]
        ELSE
        LET kindInt == Atoi(Deref(tagK)[2])
            d       == Deref(tagD)[2]
            parts   == Split(d)
        IN  IF ~kindInt.ok
            THEN [e |-> e, id |-> Nil, err |-> ErrInvalidKind]
            ELSE IF kindInt.val = KindNodeAnnouncement
            THEN LET id == [TagD |-> d, Network |-> EmptyStr, PubKey |-> d,
                            Kind |-> kindInt.val, Opts |-> <<>>]
                 IN  [e |-> [e EXCEPT !.id = Ptr(id)], id |-> Ptr(id),
                      err |-> NoError]
            ELSE IF Len(parts) < 3
            THEN [e |-> e, id |-> Nil, err |-> ErrInvalidTagDFormat]
            ELSE LET id == [TagD |-> d, Network |-> parts[3],
                            PubKey |-> parts[2], Kind |-> kindInt.val,
                            Opts |-> SubSeq(parts, 4, Len(parts))]
                 IN  [e |-> [e EXCEPT !.id = Ptr(id)], id |-> Ptr(id),
                      err |-> NoError]

\* NewEventFromNostrRelay(ev): [e, err]; e is nil on error
NewEventFromNostrRelay(ne) ==
    LET e0 == [NostrEvent |-> ne, kind |-> 0, finalized |-> FALSE, id |-> Nil]
        r  == GetIdentifier(e0)
    IN  IF r.err # NoError THEN [e |-> Nil, err |-> r.err]
        ELSE [e |-> Ptr([r.e EXCEPT !.kind = Deref(r.id).Kind,
                                    !.finalized = TRUE]),
              err |-> NoError]

(***************************************************************************)
(* MapStore.                                                               *)
(*                                                                         *)
(* announcementState = [createdAt, pub]                                    *)
(* nodeState         = [lastAnnouncement, events]; events maps a 'd' tag   *)
(*                     to a clip.Event                                     *)
(* A *nodeState is an index into the sequence `nodes` of the node states   *)
(* allocated so far; MapStore.records maps a node pubkey to such an index. *)
(***************************************************************************)
ErrStaleAnnouncement == "existing announcement is newer or same"
ErrUntrustedSigner == "event pubkey does not match last announcement pubkey"
ErrStaleRecord == "existing record is newer or same"

EmptyMap == [x \in {} |-> x]
MapPut(m, k, v) == (k :> v) @@ m

\* newNodeState(): the zero announcementState and an empty map
newNodeState ==
    [lastAnnouncement |-> [createdAt |-> 0, pub |-> EmptyStr],
     events |-> EmptyMap]

\* Mutants of registerAnnouncement: one that never purges, one that purges
\* on every accepted announcement, one that accepts whatever the created_at
\* is, one that accepts an equal created_at.
registerAnnouncementNoPurge(ns, ev, id) ==
    IF ns.lastAnnouncement.createdAt >= ev.NostrEvent.CreatedAt
    THEN [ns |-> ns, err |-> ErrStaleAnnouncement]
    ELSE [ns |-> [lastAnnouncement |->
                      [createdAt |-> ev.NostrEvent.CreatedAt,
                       pub |-> ev.NostrEvent.PubKey],
                  events |-> MapPut(ns.events, id.TagD, ev)],
          err |-> NoError]

registerAnnouncementPurgeAlways(ns, ev, id) ==
    IF ns.lastAnnouncement.createdAt >= ev.NostrEvent.CreatedAt
    THEN [ns |-> ns, err |-> ErrStaleAnnouncement]
    ELSE [ns |-> [lastAnnouncement |->
                      [createdAt |-> ev.NostrEvent.CreatedAt,
                       pub |-> ev.NostrEvent.PubKey],
                  events |-> MapPut(EmptyMap, id.TagD, ev)],
          err |-> NoError]

registerAnnouncementNoStaleCheck(ns, ev, id) ==
    LET purged == IF ns.lastAnnouncement.pub # ev.NostrEvent.PubKey
                  THEN EmptyMap ELSE ns.events
    IN  [ns |-> [lastAnnouncement |->
                     [createdAt |-> ev.NostrEvent.CreatedAt,
                      pub |-> ev.NostrEvent.PubKey],
                 events |-> MapPut(purged, id.TagD, ev)],
         err |-> NoError]

registerAnnouncementAcceptEqual(ns, ev, id) ==
    IF ns.lastAnnouncement.createdAt > ev.NostrEvent.CreatedAt
    THEN [ns |-> ns, err |-> ErrStaleAnnouncement]
    ELSE LET purged == IF ns.lastAnnouncement.pub # ev.NostrEvent.PubKey
                       THEN EmptyMap ELSE ns.events
         IN  [ns |-> [lastAnnouncement |->
                          [createdAt |-> ev.NostrEvent.CreatedAt,
                           pub |-> ev.NostrEvent.PubKey],
                      events |-> MapPut(purged, id.TagD, ev)],
              err |-> NoError]

\* Mutant: the bound identity is not written
registerAnnouncementKeepsPub(ns, ev, id) ==
    IF ns.lastAnnouncement.createdAt >= ev.NostrEvent.CreatedAt
    THEN [ns |-> ns, err |-> ErrStaleAnnouncement]
    ELSE LET purged == IF ns.lastAnnouncement.pub # ev.NostrEvent.PubKey
                       THEN EmptyMap ELSE ns.events
         IN  [ns |-> [lastAnnouncement |->
                          [createdAt |-> ev.NostrEvent.CreatedAt,
                           pub |-> ns.lastAnnouncement.pub],
                      events |-> MapPut(purged, id.TagD, ev)],
              err |-> NoError]

\* Mutant: the purge before the comparison of created_at
registerAnnouncementPurgeFirst(ns, ev, id) ==
    LET purged == IF ns.lastAnnouncement.pub # ev.NostrEvent.PubKey
                  THEN EmptyMap ELSE ns.events
    IN  IF ns.lastAnnouncement.createdAt >= ev.NostrEvent.CreatedAt
        THEN [ns |-> [ns EXCEPT !.events = purged],
              err |-> ErrStaleAnnouncement]
        ELSE [ns |-> [lastAnnouncement |->
                          [createdAt |-> ev.NostrEvent.CreatedAt,
                           pub |-> ev.NostrEvent.PubKey],
                      events |-> MapPut(purged, id.TagD, ev)],
              err |-> NoError]

\* MapStore.registerAnnouncement(ns, ev, id): [ns, err]
registerAnnouncement(ns, ev, id) ==
    IF ns.lastAnnouncement.createdAt >= ev.NostrEvent.CreatedAt
    THEN [ns |-> ns, err |-> ErrStaleAnnouncement]
    ELSE LET purged == IF ns.lastAnnouncement.pub # ev.NostrEvent.PubKey
                       THEN EmptyMap ELSE ns.events
         IN  [ns |-> [lastAnnouncement |->
                          [createdAt |-> ev.NostrEvent.CreatedAt,
                           pub |-> ev.NostrEvent.PubKey],
                      events |-> MapPut(purged, id.TagD, ev)],
              err |-> NoError]

\* Mutants of storeRegularEvent: one that does not look at the signer, one
\* that does not look at the slot, one that accepts an equal created_at.
storeRegularEventAnySigner(ns, ev, id) ==
    IF id.TagD \in DOMAIN ns.events
       /\ ns.events[id.TagD].NostrEvent.CreatedAt >= ev.NostrEvent.CreatedAt
    THEN [ns |-> ns, err |-> ErrStaleRecord]
    ELSE [ns |-> [ns EXCEPT !.events = MapPut(ns.events, id.TagD, ev)],
          err |-> NoError]

storeRegularEventNoStaleCheck(ns, ev, id) ==
    IF ns.lastAnnouncement.pub # ev.NostrEvent.PubKey
    THEN [ns |-> ns, err |-> ErrUntrustedSigner]
    ELSE [ns |-> [ns EXCEPT !.events = MapPut(ns.events, id.TagD, ev)],
          err |-> NoError]

storeRegularEventAcceptEqual(ns, ev, id) ==
    IF ns.lastAnnouncement.pub # ev.NostrEvent.PubKey
    THEN [ns |-> ns, err |-> ErrUntrustedSigner]
    ELSE IF id.TagD \in DOMAIN ns.events
            /\ ns.events[id.TagD].NostrEvent.CreatedAt > ev.NostrEvent.CreatedAt
    THEN [ns |-> ns, err |-> ErrStaleRecord]
    ELSE [ns |-> [ns EXCEPT !.events = MapPut(ns.events, id.TagD, ev)],
          err |-> NoError]

\* MapStore.storeRegularEvent(ns, ev, id): [ns, err]
storeRegularEvent(ns, ev, id) ==
    IF ns.lastAnnouncement.pub # ev.NostrEvent.PubKey
    THEN [ns |-> ns, err |-> ErrUntrustedSigner]
    ELSE IF id.TagD \in DOMAIN ns.events
            /\ ns.events[id.TagD].NostrEvent.CreatedAt >= ev.NostrEvent.CreatedAt
    THEN [ns |-> ns, err |-> ErrStaleRecord]
    ELSE [ns |-> [ns EXCEPT !.events = MapPut(ns.events, id.TagD, ev)],
          err |-> NoError]

\* The body of StoreEvent run under the node lock (lines 52-56): [ns, err]
storeLocked(ns, ev, id) ==
    IF ev.kind = KindNodeAnnouncement
    THEN registerAnnouncement(ns, ev, id)
    ELSE storeRegularEvent(ns, ev, id)

\* Mutant: an empty set admits no item
newInFilterEmptyAdmitsNone(set, item) == item \in set

\* newInFilter(set): an empty set admits every item
newInFilter(set, item) == Cardinality(set) = 0 \/ item \in set

(***************************************************************************)
(* Signers.  Keys are ideal: a signature is the pair (signing key,         *)
(* message), so it verifies exactly under that key and for that message.   *)
(***************************************************************************)
\* nostr.Signer.SignEvent(ev): sets PubKey, ID and Sig
NostrSign(ne, key) ==
    LET withKey == [ne EXCEPT !.PubKey = key]
    IN  [withKey EXCEPT !.ID = Ptr(GetID(withKey)),
                        !.Sig = Ptr([wf |-> TRUE, key |-> key,
                                     msg |-> GetID(withKey)])]

\* copyWithoutSig(): the event without its 'sig' tags, ID and Sig unset
RECURSIVE WithoutSigTags(_)
WithoutSigTags(tags) ==
    IF Len(tags) = 0 THEN <<>>
    ELSE (IF Len(Head(tags)) > 0 /\ Head(tags)[1] = TagSig
          THEN <<>> ELSE <<Head(tags)>>) \o WithoutSigTags(Tail(tags))

\* Mutant: the copy leaves out the PubKey
copyWithoutSigNoPubKey(e) ==
    [PubKey |-> EmptyStr, CreatedAt |-> e.NostrEvent.CreatedAt,
     Kind |-> e.NostrEvent.Kind, Tags |-> WithoutSigTags(e.NostrEvent.Tags),
     Content |-> e.NostrEvent.Content]

\* Mutant: the copy keeps the 'sig' tags
copyKeepingSig(e) ==
    [PubKey |-> e.NostrEvent.PubKey, CreatedAt |-> e.NostrEvent.CreatedAt,
     Kind |-> e.NostrEvent.Kind, Tags |-> e.NostrEvent.Tags,
     Content |-> e.NostrEvent.Content]

copyWithoutSig(e) ==
    [PubKey |-> e.NostrEvent.PubKey, CreatedAt |-> e.NostrEvent.CreatedAt,
     Kind |-> e.NostrEvent.Kind, Tags |-> WithoutSigTags(e.NostrEvent.Tags),
     Content |-> e.NostrEvent.Content]

\* Event.Hash(): the ID of the copy without 'sig' tags
Hash(e) == GetID(copyWithoutSig(e))

\* LnSigner.SignMessage(msg) by the node whose identity key is lnKey: the
\* zbase32 text of a recoverable signature over
\* doubleSHA256("Lightning Signed Message:" ++ msg)
LnSignMessage(lnKey, msg) == <<"zbase32">> \o lnKey \o <<ToString(msg)>>

(***************************************************************************)
(* Event.Verify and its checks.  Each check yields [ok, err].              *)
(***************************************************************************)
ErrFuture == "event is too far in the future"
ErrIDMismatch == "event ID mismatch"
ErrContentSize == "content size exceeds maximum limit"
ErrInvalidNetwork == "invalid network"
ErrKindTag == "missing or invalid 'k' tag"
ErrBadPubKey == "event has invalid pubkey"
ErrBadNostrSig == "failed to parse signature"
ErrManySigs == "more than one 'sig' tag"
ErrNoSig == "no 'sig' tag found"
ErrDecodeSig == "decoding signature"
ErrRecover == "recovering public key"
ErrKeyMismatch == "public key does not match"

Pass == [ok |-> TRUE, err |-> NoError]
Fail(err) == [ok |-> FALSE, err |-> err]

\* IsValidNetwork(network)
IsValidNetwork(network) ==
    network \in {Str("mainnet"), Str("testnet"), Str("testnet4"),
                 Str("signet"), Str("simnet"), Str("regtest")}

\* Mutant: a Lightning signature required of every kind
RequiresLnSignatureAlways(e) == TRUE

\* Event.RequiresLnSignature()
RequiresLnSignature(e) == e.kind = KindNodeAnnouncement

\* Verify lines 122-125
checkTimestamp(e, now) ==
    IF e.NostrEvent.CreatedAt > now + EventGracePeriodSeconds
    THEN Fail(ErrFuture) ELSE Pass

\* Mutant: the ID is compared with a hash that leaves out the tags
checkIDNoTags(e) ==
    IF e.NostrEvent.ID = Nil
       \/ [Deref(e.NostrEvent.ID) EXCEPT !.Tags = <<>>]
              # [GetID(e.NostrEvent) EXCEPT !.Tags = <<>>]
    THEN Fail(ErrIDMismatch) ELSE Pass

\* Verify lines 128-130
checkID(e) ==
    IF e.NostrEvent.ID # Ptr(GetID(e.NostrEvent))
    THEN Fail(ErrIDMismatch) ELSE Pass

\* Verify lines 133-136
checkSize(e) ==
    IF e.NostrEvent.Content.len > MaxContentSize
    THEN Fail(ErrContentSize) ELSE Pass

\* Verify lines 139-142
checkIdentifier(e) ==
    IF GetIdentifier(e).err # NoError
    THEN Fail(GetIdentifier(e).err) ELSE Pass

\* Verify lines 144-148
checkNetwork(idx) ==
    IF idx.Kind # KindNodeAnnouncement /\ ~IsValidNetwork(idx.Network)
    THEN Fail(ErrInvalidNetwork) ELSE Pass

\* Verify lines 150-154
checkKindTag(e, idx) ==
    LET k == Find(e.NostrEvent.Tags, TagK)
    IN  IF k = Nil \/ Len(Deref(k)) < 2 \/ Deref(k)[2] # Itoa(idx.Kind)
        THEN Fail(ErrKindTag) ELSE Pass

\* nostr.Event.CheckSignature(): [ok, err].  A malformed key or signature
\* is an error; a well-formed signature that does not verify is (false, nil)
CheckSignature(ne) ==
    IF ne.PubKey = EmptyStr THEN [ok |-> FALSE, err |-> ErrBadPubKey]
    ELSE IF ne.Sig = Nil \/ ~Deref(ne.Sig).wf
    THEN [ok |-> FALSE, err |-> ErrBadNostrSig]
    ELSE [ok |-> Deref(ne.Sig).key = ne.PubKey
                 /\ Deref(ne.Sig).msg = GetID(ne),
          err |-> NoError]

\* Verify lines 157-159: "if err != nil || !ok { return false, err }"
checkNostrSig(e) ==
    LET r == CheckSignature(e.NostrEvent)
    IN  IF r.err # NoError \/ ~r.ok THEN Fail(r.err) ELSE Pass

\* Event.checkLightningSig(pubKeyID).  A signature text is zbase32 when its
\* first token is "zbase32"; the compact signature in it is the signing key
\* followed by the signed message.  Recovery for another message yields a
\* key nobody holds.
UnrelatedKey == Str("unrelated")

\* Mutant: the first of several 'sig' tags is taken
checkLightningSigFirstOfMany(e, pubKeyID) ==
    LET sigs == FindAll(e.NostrEvent.Tags, TagSig)
    IN  IF Len(sigs) = 0 THEN Fail(ErrNoSig)
        ELSE LET sig == sigs[1][2]
             IN  IF Len(sig) = 0 \/ sig[1] # "zbase32" THEN Fail(ErrDecodeSig)
                 ELSE IF Len(sig) < 3 THEN Fail(ErrRecover)
                 ELSE LET key == IF sig[Len(sig)] = ToString(Hash(e))
                                 THEN SubSeq(sig, 2, Len(sig) - 1)
                                 ELSE UnrelatedKey
                      IN  IF key # pubKeyID THEN Fail(ErrKeyMismatch)
                          ELSE Pass

checkLightningSig(e, pubKeyID) ==
    LET sigs == FindAll(e.NostrEvent.Tags, TagSig)
    IN  IF Len(sigs) > 1 THEN Fail(ErrManySigs)
        ELSE IF Len(sigs) = 0 THEN Fail(ErrNoSig)
        ELSE LET sig == sigs[1][2]
             IN  IF Len(sig) = 0 \/ sig[1] # "zbase32" THEN Fail(ErrDecodeSig)
                 ELSE IF Len(sig) < 3 THEN Fail(ErrRecover)
                 ELSE LET key == IF sig[Len(sig)] = ToString(Hash(e))
                                 THEN SubSeq(sig, 2, Len(sig) - 1)
                                 ELSE UnrelatedKey
                      IN  IF key # pubKeyID THEN Fail(ErrKeyMismatch)
                          ELSE Pass

\* The checks of Verify in the order of its code, and the check that
\* follows a passed one ("return": none, Verify returns true).
VerifyOrder ==
    <<"timestamp", "id", "size", "identifier", "network", "kind",
      "nostrsig", "lnsig">>

\* Mutant: the size check before the ID check
checkAfterSizeFirst(c, e) ==
    CASE c = "start" -> "timestamp"
      [] c = "timestamp" -> "size"
      [] c = "size" -> "id"
      [] c = "id" -> "identifier"
      [] c = "identifier" -> "network"
      [] c = "network" -> "kind"
      [] c = "kind" -> "nostrsig"
      [] c = "nostrsig" -> IF RequiresLnSignature(e) THEN "lnsig" ELSE "return"
      [] c = "lnsig" -> "return"

checkAfter(c, e) ==
    CASE c = "start" -> "timestamp"
      [] c = "timestamp" -> "id"
      [] c = "id" -> "size"
      [] c = "size" -> "identifier"
      [] c = "identifier" -> "network"
      [] c = "network" -> "kind"
      [] c = "kind" -> "nostrsig"
      [] c = "nostrsig" -> IF RequiresLnSignature(e) THEN "lnsig" ELSE "return"
      [] c = "lnsig" -> "return"

\* the outcome of check c on event e at time now; the checks after the
\* identifier check read the identifier GetIdentifier cached in e
checkOutcome(c, e, now) ==
    CASE c = "timestamp" -> checkTimestamp(e, now)
      [] c = "id" -> checkID(e)
      [] c = "size" -> checkSize(e)
      [] c = "identifier" -> checkIdentifier(e)
      [] c = "network" -> checkNetwork(Deref(GetIdentifier(e).id))
      [] c = "kind" -> checkKindTag(e, Deref(GetIdentifier(e).id))
      [] c = "nostrsig" -> checkNostrSig(e)
      [] c = "lnsig" -> checkLightningSig(e, Deref(GetIdentifier(e).id).PubKey)

\* Event.Verify(), run from check c on: [valid, err, e]
RECURSIVE verifyFrom(_, _, _)
verifyFrom(c, e, now) ==
    IF c = "return" THEN [valid |-> TRUE, err |-> NoError, e |-> e]
    ELSE LET r  == checkOutcome(c, e, now)
             e2 == IF c = "identifier" THEN GetIdentifier(e).e ELSE e
         IN  IF ~r.ok THEN [valid |-> FALSE, err |-> r.err, e |-> e2]
             ELSE verifyFrom(checkAfter(c, e2), e2, now)

Verify(e, now) == verifyFrom(checkAfter("start", e), e, now)

(***************************************************************************)
(* Event.Finalize and CombinedSigner.SignEvent.                            *)
(***************************************************************************)
ErrHasTagD == "event already has a 'd' tag"
ErrHasTagK == "event already has a 'k' tag"
ErrNotFinalized == "event not finalized"
ErrDuplicateSig == "signing with ln: event already has a 'sig' tag"
ErrLnSigner == "signing with ln: signer failed"
ErrNostrSigner == "signing with nostr: signer failed"

\* Mutant: the 'd' tag of a Node Announcement built like the others
FinalizeAlwaysPrefixed(e, network, pubkey, kind, opts) ==
    IF Find(e.NostrEvent.Tags, TagD) # Nil THEN [e |-> e, err |-> ErrHasTagD]
    ELSE IF Find(e.NostrEvent.Tags, TagK) # Nil
    THEN [e |-> e, err |-> ErrHasTagK]
    ELSE LET kindStr == Itoa(kind)
             tagD == Join(<<kindStr, pubkey, network>> \o opts)
         IN  [e |-> [e EXCEPT !.kind = kind,
                              !.finalized = TRUE,
                              !.NostrEvent.Kind = KindLightningInformation,
                              !.NostrEvent.Tags =
                                  @ \o <<<<TagD, tagD>>, <<TagK, kindStr>>>>],
              err |-> NoError]

\* Mutant: Finalize looking for a 'd' tag only
FinalizeKTagUnchecked(e, network, pubkey, kind, opts) ==
    IF Find(e.NostrEvent.Tags, TagD) # Nil THEN [e |-> e, err |-> ErrHasTagD]
    ELSE LET kindStr == Itoa(kind)
             tagD == IF kind = KindNodeAnnouncement THEN pubkey
                     ELSE Join(<<kindStr, pubkey, network>> \o opts)
         IN  [e |-> [e EXCEPT !.kind = kind,
                              !.finalized = TRUE,
                              !.NostrEvent.Kind = KindLightningInformation,
                              !.NostrEvent.Tags =
                                  @ \o <<<<TagD, tagD>>, <<TagK, kindStr>>>>],
              err |-> NoError]

\* Event.Finalize(network, pubkey, kind, opts): [e, err]
Finalize(e, network, pubkey, kind, opts) ==
    IF Find(e.NostrEvent.Tags, TagD) # Nil THEN [e |-> e, err |-> ErrHasTagD]
    ELSE IF Find(e.NostrEvent.Tags, TagK) # Nil
    THEN [e |-> e, err |-> ErrHasTagK]
    ELSE LET kindStr == Itoa(kind)
             tagD == IF kind = KindNodeAnnouncement THEN pubkey
                     ELSE Join(<<kindStr, pubkey, network>> \o opts)
         IN  [e |-> [e EXCEPT !.kind = kind,
                              !.finalized = TRUE,
                              !.NostrEvent.Kind = KindLightningInformation,
                              !.NostrEvent.Tags =
                                  @ \o <<<<TagD, tagD>>, <<TagK, kindStr>>>>],
              err |-> NoError]

\* Mutant: the nostr signer first, the Lightning signature afterwards
signNextNostrFirst(pos, e) ==
    CASE pos = "call" -> "nostrSign"
      [] pos = "nostrSign" ->
            IF RequiresLnSignature(e) THEN "signWithLn" ELSE "return"
      [] pos = "signWithLn" -> "return"

\* CombinedSigner.SignEvent: what follows the finalized test ("call"),
\* signWithLn and the nostr signer
signNext(pos, e) ==
    CASE pos = "call" ->
            IF RequiresLnSignature(e) THEN "signWithLn" ELSE "nostrSign"
      [] pos = "signWithLn" -> "nostrSign"
      [] pos = "nostrSign" -> "return"

(***************************************************************************)
(* The records offered to the store.                                       *)
(***************************************************************************)
NodeP == Str("P")
NodeQ == Str("Q")
KeyA == Str("A")
KeyB == Str("B")
Mainnet == Str("mainnet")
OptX == Str("x")

EmptyContent == [len |-> 0, data |-> "{}"]

\* the tags Finalize gives a Node Announcement of node ln, then the 'sig'
\* tag signWithLn appends
AnnouncementTags(ln) == <<<<TagD, ln>>, <<TagK, Itoa(KindNodeAnnouncement)>>>>

\* the tags Finalize gives a Node Info of node ln
InfoTags(ln, opts) ==
    <<<<TagD, Join(<<Itoa(KindNodeInfo), ln, Mainnet>> \o opts)>>,
      <<TagK, Itoa(KindNodeInfo)>>>>

Unsigned(t, tags) ==
    [PubKey |-> EmptyStr, CreatedAt |-> t, Kind |-> KindLightningInformation,
     Tags |-> tags, Content |-> EmptyContent, ID |-> Nil, Sig |-> Nil]

\* a Node Announcement of node ln by the nostr key pk, as a relay delivers it
RelayAnnouncement(ln, pk, t) ==
    LET u  == [Unsigned(t, AnnouncementTags(ln)) EXCEPT !.PubKey = pk]
        e0 == [NostrEvent |-> u, kind |-> KindNodeAnnouncement,
               finalized |-> TRUE, id |-> Nil]
        s  == [u EXCEPT !.Tags = Append(u.Tags,
                                  <<TagSig, LnSignMessage(ln, Hash(e0))>>)]
    IN  NostrSign(s, pk)

\* a Node Info of node ln by the nostr key pk, as a relay delivers it
RelayInfo(ln, pk, t, opts) == NostrSign(Unsigned(t, InfoTags(ln, opts)), pk)

InfoTimes == 1..MaxInfoTime
NostrKeys == {KeyA, KeyB}

\* Node P is offered the announcements of the keys A and B with the
\* created_at values 1..MaxTime and one with created_at 0, the Node Infos
\* of A and B for one slot, and one Node Info whose PubKey is the empty
\* string; node Q, which is never announced, is offered one Node Info.
RelayEvents ==
    {RelayAnnouncement(NodeP, pk, t) : pk \in NostrKeys, t \in 1..MaxTime}
    \cup {RelayAnnouncement(NodeP, KeyA, 0)}
    \cup {RelayInfo(NodeP, pk, t, <<>>) : pk \in NostrKeys, t \in InfoTimes}
    \cup {RelayInfo(NodeP, EmptyStr, 1, <<>>)}
    \cup {RelayInfo(NodeQ, KeyA, 1, <<>>)}

\* the events StoreEvent is called with: those NewEventFromNostrRelay builds
StoreEvents == {Deref(NewEventFromNostrRelay(ne).e) : ne \in RelayEvents}

\* accessors
IsAnnouncement(e) == e.kind = KindNodeAnnouncement
CreatedAt(e) == e.NostrEvent.CreatedAt
Signer(e) == e.NostrEvent.PubKey

(***************************************************************************)
(* State.                                                                  *)
(***************************************************************************)
VARIABLES
    records,    \* MapStore.records: node pubkey -> index into nodes
    nodes,      \* the nodeStates allocated so far
    displaced,  \* history: displaced[p][k] is the created_at of the latest
                \* accepted announcement of node p that replaced the bound
                \* identity k by another one (0: never)
    high,       \* history: high[p][d] is, for slot d of node p, the
                \* greatest created_at accepted into it ever and since the
                \* last purge of p's slots (-1: none), and whether a record
                \* was accepted into it with a created_at not above those
    batch,      \* SpecBatch: the announcements to submit, each once
    pending,    \* SpecBatch: those not yet submitted
    smu,        \* SpecConc: MapStore.mu, [writer, readers]
    nmu,        \* SpecConc: nmu[i] is nodes[i].mu, [writer, readers]
    pc,         \* SpecConc: pc[t], where goroutine t is in its call
    cur,        \* SpecConc: cur[t], the event of t's call (nil: none)
    nsp,        \* SpecConc: nsp[t], the *nodeState t's call got (0: none)
    ret,        \* SpecConc: ret[t], the error t's call returns
    race,       \* SpecConc: history of two overlapping calls on one slot:
                \* the call of them that runs second, the record with the
                \* higher created_at, and whether each record would have
                \* been accepted when the first call got the node lock
    vev,        \* SpecVerify: the event Verify is called on
    vpc,        \* SpecVerify: the check Verify is about to evaluate
    vtrace,     \* SpecVerify: history, the checks evaluated so far
    vres,       \* SpecVerify: what Verify returned, [valid, err]
    pev,        \* SpecPublish: the Event being built
    pin,        \* SpecPublish: the arguments of Finalize, and the PubKey the
                \* Event was created with (pub)
    ppc,        \* SpecPublish: where the running SignEvent call is
    pcalls,     \* SpecPublish: history, the signers the last SignEvent invoked
    pops,       \* SpecPublish: history, the calls returned so far
    spc,        \* SpecSync: where the running Client.GetEvents call is
    sarg,       \* SpecSync: the arguments of the call, [kind, pubkeys]
    sgot,       \* SpecSync: history, sgot[n] is what FetchManyReplaceable
                \* returned in pass n (nil: the pass was not run)
    sleft,      \* SpecSync: the records Range has not yet visited
    slog,       \* SpecSync: history, the records processed so far (by
                \* name), each with its pass and what became of it
    swarn,      \* SpecSync: the lengths of fetchErrors, [local, total]:
                \* syncStoreWithPool's and GetEvents's
    sret,       \* SpecSync: what GetEvents returned, [events, err, warnings]
    scancel,    \* SpecSync: ctx is cancelled
    sne,        \* SpecSync: the record (by name) Range's function has
                \* handed to StoreEvent, while that call runs (nil: none)
    cpc,        \* SpecClientPublish: where the running Client.Publish call is
    cin,        \* SpecClientPublish: the arguments of the call and how
                \* the signers behave in it
    cev,        \* SpecClientPublish: ev, the Event of the call
    clog,       \* SpecClientPublish: history, the steps of the call that
                \* returned, each with its error
    csent,      \* SpecClientPublish: history, the records handed to
                \* pool.PublishMany
    cret,       \* SpecClientPublish: the error Publish returned
    garg,       \* SpecConcRead: garg[t], the arguments of t's GetEvents
                \* call, [kind, pubKeys] (nil: none)
    gsnap,      \* SpecConcRead: gsnap[t], the *nodeStates of t's snapshot
                \* that t has not yet visited
    gres,       \* SpecConcRead: gres[t], the events t's call has collected
    gseen       \* SpecConcRead: history, gseen[t] is the store as it was
                \* when t's GetEvents call began

storeVars == <<records, nodes, displaced, high>>
batchVars == <<batch, pending>>
concVars == <<smu, nmu, pc, cur, nsp, ret, race>>
verifyVars == <<vev, vpc, vtrace, vres>>
pubVars == <<pev, pin, ppc, pcalls, pops>>
syncVars == <<spc, sarg, sgot, sleft, slog, swarn, sret, scancel, sne>>
clientVars == <<cpc, cin, cev, clog, csent, cret>>
readVars == <<garg, gsnap, gres, gseen>>
vars == <<storeVars, batchVars, concVars, verifyVars, pubVars, syncVars,
          clientVars, readVars>>

\* the state of node p; a node without entry is in the state newNodeState
NodeView(recs, nds, p) ==
    IF p \in DOMAIN recs THEN nds[recs[p]] ELSE newNodeState

\* NewMapStore()
InitStore ==
    /\ records = EmptyMap
    /\ nodes = <<>>
    /\ displaced = [p \in {NodeP, NodeQ} |->
                        [k \in NostrKeys \cup {EmptyStr} |-> 0]]
    /\ high = [p \in {NodeP, NodeQ} |-> EmptyMap]

NoBatch ==
    /\ batch = {}
    /\ pending = {}

Goroutines == {1, 2}
Unlocked == [writer |-> 0, readers |-> {}]
NoRace == [st |-> "none", hi |-> Nil, second |-> 0, ok |-> FALSE]

\* no goroutine is in a call
NoGoroutines ==
    /\ smu = Unlocked
    /\ nmu = <<>>
    /\ pc = [t \in Goroutines |-> "idle"]
    /\ cur = [t \in Goroutines |-> Nil]
    /\ nsp = [t \in Goroutines |-> 0]
    /\ ret = [t \in Goroutines |-> NoError]
    /\ race = NoRace

\* Verify is not called
NoVerify ==
    /\ vev = Nil
    /\ vpc = "idle"
    /\ vtrace = <<>>
    /\ vres = [valid |-> FALSE, err |-> NoError]

\* no Event is being built
NoPublish ==
    /\ pev = Nil
    /\ pin = Nil
    /\ ppc = "idle"
    /\ pcalls = <<>>
    /\ pops = <<>>

\* GetEvents is not called
NoSync ==
    /\ spc = [at |-> "idle", pass |-> 0]
    /\ sarg = Nil
    /\ sgot = <<Nil, Nil>>
    /\ sleft = {}
    /\ slog = <<>>
    /\ swarn = [local |-> 0, total |-> 0]
    /\ sret = Nil
    /\ scancel = FALSE
    /\ sne = Nil

\* no goroutine is in GetEvents
NoReaders ==
    /\ garg = [t \in Goroutines |-> Nil]
    /\ gsnap = [t \in Goroutines |-> {}]
    /\ gres = [t \in Goroutines |-> <<>>]
    /\ gseen = [t \in Goroutines |-> Nil]

\* Publish is not called
NoClientPublish ==
    /\ cpc = "idle"
    /\ cin = Nil
    /\ cev = Nil
    /\ clog = <<>>
    /\ csent = <<>>
    /\ cret = Nil

\* the history of rotations after a call that took node p from pre to post
Displace(d, p, pre, post) ==
    IF pre.lastAnnouncement.pub # post.lastAnnouncement.pub
    THEN [d EXCEPT ![p][pre.lastAnnouncement.pub] = post.lastAnnouncement.createdAt]
    ELSE d

\* the history of the slots of node p after a call that stored a record
\* with created_at t in slot d; purged: the call emptied p's slots before
NeverAccepted ==
    [ever |-> -1, since |-> -1, belowEver |-> FALSE, belowSince |-> FALSE]

Accept(h, p, d, t, purged) ==
    LET base == IF purged
                THEN [x \in DOMAIN h[p] |-> [h[p][x] EXCEPT !.since = -1]]
                ELSE h[p]
        prev == IF d \in DOMAIN base THEN base[d] ELSE NeverAccepted
    IN  [h EXCEPT ![p] =
            MapPut(base, d,
                   [ever |-> IF t > prev.ever THEN t ELSE prev.ever,
                    since |-> IF t > prev.since THEN t ELSE prev.since,
                    belowEver |-> prev.belowEver \/ t <= prev.ever,
                    belowSince |-> prev.belowSince \/ t <= prev.since])]

(***************************************************************************)
(* MapStore.StoreEvent, called by two goroutines on one store.  A step is  *)
(* one lock operation together with the code that follows it up to the     *)
(* next lock operation; a deferred Unlock runs with the return.            *)
(* sync.RWMutex: Lock waits until there is no writer and no reader, RLock  *)
(* until there is no writer.  The specifications SpecConc, Spec,           *)
(* SpecRollback and SpecBatch are these steps on different sets of         *)
(* records.                                                                *)
(***************************************************************************)
\* the created_at values of the records the goroutines offer are
\* 1..MaxConcTime
MaxConcTime == 2

\* an Event literal without tags: GetIdentifier fails on it
UntaggedEvent ==
    [NostrEvent |-> NostrSign(Unsigned(1, <<>>), KeyA),
     kind |-> KindNodeAnnouncement, finalized |-> FALSE, id |-> Nil]

ConcEvents ==
    {Deref(NewEventFromNostrRelay(ne).e) :
        ne \in {RelayAnnouncement(NodeP, pk, t) :
                    pk \in NostrKeys, t \in 1..MaxConcTime}
               \cup {RelayInfo(NodeP, pk, t, <<>>) :
                    pk \in NostrKeys, t \in 1..MaxConcTime}
               \cup {RelayAnnouncement(NodeQ, KeyA, 1)}}
    \cup {UntaggedEvent}

InitConc ==
    /\ InitStore
    /\ NoBatch
    /\ NoGoroutines
    /\ NoVerify
    /\ NoPublish
    /\ NoSync
    /\ NoClientPublish
    /\ NoReaders

Other(t) == CHOOSE u \in Goroutines : u # t
CurEv(t) == Deref(cur[t])
CurId(t) == Deref(GetIdentifier(CurEv(t)).id)

\* StoreEvent lines 42-45, run by goroutine t for ev: GetIdentifier, return
\* its error or go on to getNodeState
storeEventEntry(t, ev) ==
    /\ LET g == GetIdentifier(ev)
       IN  IF g.err # NoError
           THEN /\ pc' = [pc EXCEPT ![t] = "done"]
                /\ ret' = [ret EXCEPT ![t] = g.err]
                /\ cur' = [cur EXCEPT ![t] = Ptr(ev)]
           ELSE /\ pc' = [pc EXCEPT ![t] = "RLock"]
                /\ ret' = [ret EXCEPT ![t] = NoError]
                /\ cur' = [cur EXCEPT ![t] = Ptr(g.e)]
    /\ race' = NoRace

\* StoreEvent lines 42-45: GetIdentifier, return its error
CallStep(t, ev) ==
    /\ pc[t] = "idle"
    /\ storeEventEntry(t, ev)
    /\ UNCHANGED <<readVars, clientVars, syncVars, storeVars, verifyVars,
                   pubVars, smu, nmu, nsp>>

\* a goroutine calls StoreEvent(ev)
Call(t, ev) ==
    /\ CallStep(t, ev)
    /\ UNCHANGED batchVars

\* getNodeState line 102: s.mu.RLock()
StoreRLock(t) ==
    /\ pc[t] = "RLock"
    /\ smu.writer = 0
    /\ smu' = [smu EXCEPT !.readers = @ \cup {t}]
    /\ pc' = [pc EXCEPT ![t] = "read"]
    /\ UNCHANGED <<readVars, clientVars, syncVars, storeVars, batchVars, verifyVars, pubVars, nmu, cur, nsp, ret, race>>

\* getNodeState lines 103-108: look the node up, s.mu.RUnlock()
StoreRead(t) ==
    /\ pc[t] = "read"
    /\ smu' = [smu EXCEPT !.readers = @ \ {t}]
    /\ IF CurId(t).PubKey \in DOMAIN records
       THEN /\ nsp' = [nsp EXCEPT ![t] = records[CurId(t).PubKey]]
            /\ pc' = [pc EXCEPT ![t] = "nsLock"]
       ELSE /\ nsp' = nsp
            /\ pc' = [pc EXCEPT ![t] = "Lock"]
    /\ UNCHANGED <<readVars, clientVars, syncVars, storeVars, batchVars, verifyVars, pubVars, nmu, cur, ret, race>>

\* getNodeState line 111: s.mu.Lock()
StoreLock(t) ==
    /\ pc[t] = "Lock"
    /\ smu = Unlocked
    /\ smu' = [smu EXCEPT !.writer = t]
    /\ pc' = [pc EXCEPT ![t] = "create"]
    /\ UNCHANGED <<readVars, clientVars, syncVars, storeVars, batchVars, verifyVars, pubVars, nmu, cur, nsp, ret, race>>

\* Mutant: getNodeState without its second look under the write lock
doubleCheckSkipped(recs, pubkey) == FALSE

\* the double check of getNodeState lines 115-118
doubleCheck(recs, pubkey) == pubkey \in DOMAIN recs

\* getNodeState lines 115-123: check again, create the node state if it is
\* still missing, s.mu.Unlock()
StoreCreate(t) ==
    /\ pc[t] = "create"
    /\ smu' = [smu EXCEPT !.writer = 0]
    /\ IF doubleCheck(records, CurId(t).PubKey)
       THEN /\ nsp' = [nsp EXCEPT ![t] = records[CurId(t).PubKey]]
            /\ UNCHANGED <<records, nodes, nmu>>
       ELSE /\ nsp' = [nsp EXCEPT ![t] = Len(nodes) + 1]
            /\ records' = MapPut(records, CurId(t).PubKey, Len(nodes) + 1)
            /\ nodes' = Append(nodes, newNodeState)
            /\ nmu' = Append(nmu, Unlocked)
    /\ pc' = [pc EXCEPT ![t] = "nsLock"]
    /\ UNCHANGED <<readVars, clientVars, syncVars, displaced, high, batchVars, verifyVars, pubVars, cur, ret, race>>

\* StoreEvent line 49: ns.mu.Lock()
NodeLock(t) ==
    /\ pc[t] = "nsLock"
    /\ nmu[nsp[t]] = Unlocked
    /\ nmu' = [nmu EXCEPT ![nsp[t]].writer = t]
    /\ pc' = [pc EXCEPT ![t] = "locked"]
    /\ UNCHANGED <<readVars, clientVars, syncVars, storeVars, batchVars, verifyVars, pubVars, smu, cur, nsp, ret, race>>

\* u is in a call for the slot of t's call with another created_at and has
\* not yet run under the node lock
Racing(t, u) ==
    /\ pc[u] \in {"RLock", "read", "Lock", "create", "nsLock"}
    /\ CurId(u).PubKey = CurId(t).PubKey
    /\ CurId(u).TagD = CurId(t).TagD
    /\ CreatedAt(CurEv(u)) # CreatedAt(CurEv(t))

\* each of the records of t's and u's calls would be accepted if it were
\* stored now, under the node lock t holds
BothAcceptable(t, u) ==
    /\ storeLocked(nodes[nsp[t]], CurEv(t), CurId(t)).err = NoError
    /\ storeLocked(nodes[nsp[t]], CurEv(u), CurId(u)).err = NoError

\* StoreEvent lines 52-56 and the deferred ns.mu.Unlock()
NodeStoreStep(t) ==
    /\ pc[t] = "locked"
    /\ LET r == storeLocked(nodes[nsp[t]], CurEv(t), CurId(t))
           u == Other(t)
       IN  /\ nodes' = [nodes EXCEPT ![nsp[t]] = r.ns]
           /\ ret' = [ret EXCEPT ![t] = r.err]
           /\ displaced' = Displace(displaced, CurId(t).PubKey,
                                    nodes[nsp[t]], r.ns)
           /\ race' = IF race.st = "open" /\ race.second = t
                      THEN [race EXCEPT !.st = "done"]
                      ELSE IF Racing(t, u)
                      THEN [st |-> "open", second |-> u,
                            hi |-> IF CreatedAt(CurEv(t)) > CreatedAt(CurEv(u))
                                   THEN cur[t] ELSE cur[u],
                            ok |-> BothAcceptable(t, u)]
                      ELSE NoRace
    /\ nmu' = [nmu EXCEPT ![nsp[t]].writer = 0]
    /\ pc' = [pc EXCEPT ![t] = "done"]
    /\ UNCHANGED <<readVars, clientVars, syncVars, records, batchVars,
                   verifyVars, pubVars, smu, cur, nsp>>

\* the step without the history of the slots
NodeStore(t) ==
    /\ NodeStoreStep(t)
    /\ UNCHANGED high

\* the step, and the history of the slot it wrote
NodeStoreTracked(t) ==
    /\ NodeStoreStep(t)
    /\ high' = IF ret'[t] # NoError THEN high
               ELSE Accept(high, CurId(t).PubKey, CurId(t).TagD,
                           CreatedAt(CurEv(t)),
                           IsAnnouncement(CurEv(t))
                              /\ nodes[nsp[t]].lastAnnouncement.pub
                                     # Signer(CurEv(t)))

\* the caller has the result and may call again
Return(t) ==
    /\ pc[t] = "done"
    /\ pc' = [pc EXCEPT ![t] = "idle"]
    /\ cur' = [cur EXCEPT ![t] = Nil]
    /\ nsp' = [nsp EXCEPT ![t] = 0]
    /\ ret' = [ret EXCEPT ![t] = NoError]
    /\ UNCHANGED <<readVars, clientVars, syncVars, storeVars, batchVars, verifyVars, pubVars, smu, nmu, race>>

NextConc ==
    \E t \in Goroutines :
        \/ \E ev \in ConcEvents : Call(t, ev)
        \/ StoreRLock(t)
        \/ StoreRead(t)
        \/ StoreLock(t)
        \/ StoreCreate(t)
        \/ NodeLock(t)
        \/ NodeStore(t)
        \/ Return(t)

SpecConc == InitConc /\ [][NextConc]_vars

(***************************************************************************)
(* Spec: two goroutines calling StoreEvent with the records of             *)
(* StoreEvents, any number of times, in any interleaving.                  *)
(***************************************************************************)
Init ==
    /\ InitStore
    /\ NoBatch
    /\ NoGoroutines
    /\ NoVerify
    /\ NoPublish
    /\ NoSync
    /\ NoClientPublish
    /\ NoReaders

Next ==
    \E t \in Goroutines :
        \/ \E ev \in StoreEvents : Call(t, ev)
        \/ StoreRLock(t)
        \/ StoreRead(t)
        \/ StoreLock(t)
        \/ StoreCreate(t)
        \/ NodeLock(t)
        \/ NodeStore(t)
        \/ Return(t)

Spec == Init /\ [][Next]_vars

(***************************************************************************)
(* SpecRollback: two goroutines calling StoreEvent with the announcements  *)
(* and the Node Infos of one node, with the history of what each of its    *)
(* two slots has accepted.                                                 *)
(***************************************************************************)
MaxRollTime == 2

RollbackEvents ==
    {Deref(NewEventFromNostrRelay(ne).e) :
        ne \in {RelayAnnouncement(NodeP, pk, t) :
                    pk \in NostrKeys, t \in 1..MaxRollTime}
               \cup {RelayInfo(NodeP, pk, t, <<>>) :
                    pk \in NostrKeys, t \in 1..MaxRollTime}}

InitRollback == Init

NextRollback ==
    \E t \in Goroutines :
        \/ \E ev \in RollbackEvents : Call(t, ev)
        \/ StoreRLock(t)
        \/ StoreRead(t)
        \/ StoreLock(t)
        \/ StoreCreate(t)
        \/ NodeLock(t)
        \/ NodeStoreTracked(t)
        \/ Return(t)

SpecRollback == InitRollback /\ [][NextRollback]_vars

(***************************************************************************)
(* SpecBatch: a set of Node Announcements of node P with pairwise distinct *)
(* positive created_at, each submitted once to an empty store by either    *)
(* goroutine, in any order and interleaving.                               *)
(***************************************************************************)
BatchAnnouncements ==
    {Deref(NewEventFromNostrRelay(RelayAnnouncement(NodeP, pk, t)).e) :
        pk \in NostrKeys, t \in 1..MaxTime}

Batches ==
    {S \in SUBSET BatchAnnouncements :
        /\ S # {}
        /\ \A x \in S, y \in S : x # y => CreatedAt(x) # CreatedAt(y)}

InitBatch ==
    /\ InitStore
    /\ NoGoroutines
    /\ NoVerify
    /\ NoPublish
    /\ NoSync
    /\ NoClientPublish
    /\ NoReaders
    /\ batch \in Batches
    /\ pending = batch

\* a goroutine calls StoreEvent with an announcement not yet submitted
SubmitPending(t, ev) ==
    /\ ev \in pending
    /\ CallStep(t, ev)
    /\ pending' = pending \ {ev}
    /\ batch' = batch

NextBatch ==
    \E t \in Goroutines :
        \/ \E ev \in BatchAnnouncements : SubmitPending(t, ev)
        \/ StoreRLock(t)
        \/ StoreRead(t)
        \/ StoreLock(t)
        \/ StoreCreate(t)
        \/ NodeLock(t)
        \/ NodeStore(t)
        \/ Return(t)

SpecBatch == InitBatch /\ [][NextBatch]_vars

(***************************************************************************)
(* SpecConcRead: two goroutines calling MapStore.StoreEvent and            *)
(* MapStore.GetEvents on one store.  The steps of StoreEvent up to the     *)
(* node lock are those of SpecConc; under the node lock the writes of an   *)
(* accepted record are two steps, so that a state between them exists.     *)
(***************************************************************************)
ReadEvents ==
    {Deref(NewEventFromNostrRelay(ne).e) :
        ne \in {RelayAnnouncement(NodeP, KeyA, 1),
                RelayAnnouncement(NodeP, KeyB, 2),
                RelayInfo(NodeP, KeyA, 1, <<>>),
                RelayInfo(NodeP, KeyA, 1, <<OptX>>),
                RelayAnnouncement(NodeQ, KeyA, 1)}}

ReadKinds == {KindNodeAnnouncement, KindNodeInfo}
ReadFilters == {{}, {NodeP}}

InitConcRead ==
    /\ InitStore
    /\ NoBatch
    /\ NoGoroutines
    /\ NoVerify
    /\ NoPublish
    /\ NoSync
    /\ NoClientPublish
    /\ NoReaders

\* the node state after the first write of an accepted record: the purge of
\* registerAnnouncement line 68, or its line 72 when nothing is purged;
\* storeRegularEvent has one write only
firstWrite(ns, ev, id) ==
    IF ev.kind # KindNodeAnnouncement THEN ns
    ELSE IF ns.lastAnnouncement.pub # ev.NostrEvent.PubKey
    THEN [ns EXCEPT !.events = EmptyMap]
    ELSE [ns EXCEPT !.events = MapPut(ns.events, id.TagD, ev)]

\* StoreEvent lines 52-56 up to the first write, or to the return of a
\* rejected record with the deferred ns.mu.Unlock()
NodeCheck(t) ==
    /\ pc[t] = "locked"
    /\ LET r == storeLocked(nodes[nsp[t]], CurEv(t), CurId(t))
       IN  IF r.err # NoError
           THEN /\ ret' = [ret EXCEPT ![t] = r.err]
                /\ nmu' = [nmu EXCEPT ![nsp[t]].writer = 0]
                /\ pc' = [pc EXCEPT ![t] = "done"]
                /\ nodes' = nodes
           ELSE /\ nodes' = [nodes EXCEPT ![nsp[t]] =
                                firstWrite(@, CurEv(t), CurId(t))]
                /\ pc' = [pc EXCEPT ![t] = "writing"]
                /\ UNCHANGED <<ret, nmu>>
    /\ UNCHANGED <<records, displaced, high, batchVars, verifyVars, pubVars,
                   syncVars, clientVars, readVars, smu, cur, nsp, race>>

\* the remaining writes of the accepted record, the return and the deferred
\* ns.mu.Unlock()
NodeCommit(t) ==
    /\ pc[t] = "writing"
    /\ LET r == storeLocked(nodes[nsp[t]], CurEv(t), CurId(t))
       IN  /\ nodes' = [nodes EXCEPT ![nsp[t]] = r.ns]
           /\ ret' = [ret EXCEPT ![t] = r.err]
    /\ nmu' = [nmu EXCEPT ![nsp[t]].writer = 0]
    /\ pc' = [pc EXCEPT ![t] = "done"]
    /\ UNCHANGED <<records, displaced, high, batchVars, verifyVars, pubVars,
                   syncVars, clientVars, readVars, smu, cur, nsp, race>>

\* GetEvents lines 126-129, run by goroutine t: the call with its
\* arguments and the empty slice, up to s.mu.RLock()
getEventsEntry(t, kind, pubKeys) ==
    /\ garg' = [garg EXCEPT ![t] = Ptr([kind |-> kind, pubKeys |-> pubKeys])]
    /\ gseen' = [gseen EXCEPT ![t] = Ptr([records |-> records,
                                          nodes |-> nodes])]
    /\ gres' = [gres EXCEPT ![t] = <<>>]
    /\ pc' = [pc EXCEPT ![t] = "gRLock"]

\* GetEvents(kind, pubKeys) is called
GetCall(t) ==
    /\ pc[t] = "idle"
    /\ \E kind \in ReadKinds, pubKeys \in ReadFilters :
          getEventsEntry(t, kind, pubKeys)
    /\ UNCHANGED <<storeVars, batchVars, verifyVars, pubVars, syncVars,
                   clientVars, smu, nmu, cur, nsp, ret, race, gsnap>>

\* GetEvents line 132: s.mu.RLock()
GetRLock(t) ==
    /\ pc[t] = "gRLock"
    /\ smu.writer = 0
    /\ smu' = [smu EXCEPT !.readers = @ \cup {t}]
    /\ pc' = [pc EXCEPT ![t] = "gSnapshot"]
    /\ UNCHANGED <<storeVars, batchVars, verifyVars, pubVars, syncVars,
                   clientVars, readVars, nmu, cur, nsp, ret, race>>

\* the loop of GetEvents line 142 goes on with any node state of the
\* snapshot (the slice is in the order of Go's map iteration), or ends
GetNext(t, left) ==
    IF left = {}
    THEN /\ pc' = [pc EXCEPT ![t] = "gdone"]
         /\ nsp' = [nsp EXCEPT ![t] = 0]
    ELSE /\ pc' = [pc EXCEPT ![t] = "gNodeRLock"]
         /\ \E i \in left : nsp' = [nsp EXCEPT ![t] = i]

\* Mutant: GetEvents keeping the store-wide read lock over its loop
GetSnapshotKeepingLock(t) ==
    /\ pc[t] = "gSnapshot"
    /\ LET snap == {records[p] :
                       p \in {q \in DOMAIN records :
                                 newInFilter(Deref(garg[t]).pubKeys, q)}}
       IN  /\ gsnap' = [gsnap EXCEPT ![t] = snap]
           /\ GetNext(t, snap)
    /\ UNCHANGED <<storeVars, batchVars, verifyVars, pubVars, syncVars,
                   clientVars, smu, nmu, cur, ret, race, garg, gres, gseen>>

\* GetEvents lines 133-140: the node states that pass the filter, and
\* s.mu.RUnlock()
GetSnapshot(t) ==
    /\ pc[t] = "gSnapshot"
    /\ LET snap == {records[p] :
                       p \in {q \in DOMAIN records :
                                 newInFilter(Deref(garg[t]).pubKeys, q)}}
       IN  /\ gsnap' = [gsnap EXCEPT ![t] = snap]
           /\ GetNext(t, snap)
    /\ smu' = [smu EXCEPT !.readers = @ \ {t}]
    /\ UNCHANGED <<storeVars, batchVars, verifyVars, pubVars, syncVars,
                   clientVars, nmu, cur, ret, race, garg, gres, gseen>>

\* Mutant: the node state is read without regard to its writer
nodeReadableUnlocked(mu) == TRUE

\* sync.RWMutex.RLock returns when no writer holds the mutex
nodeReadable(mu) == mu.writer = 0

\* GetEvents line 143: ns.mu.RLock()
GetNodeRLock(t) ==
    /\ pc[t] = "gNodeRLock"
    /\ nodeReadable(nmu[nsp[t]])
    /\ nmu' = [nmu EXCEPT ![nsp[t]].readers = @ \cup {t}]
    /\ pc' = [pc EXCEPT ![t] = "gNodeRead"]
    /\ UNCHANGED <<storeVars, batchVars, verifyVars, pubVars, syncVars,
                   clientVars, readVars, smu, cur, nsp, ret, race>>

\* the orders in which a range over a map with the keys S can visit them
\* (Go leaves the iteration order of a map unspecified)
RangeOrders(S) ==
    {o \in [1..Cardinality(S) -> S] :
        \A i, j \in 1..Cardinality(S) : i # j => o[i] # o[j]}

\* GetEvents lines 144-149: the events of ns.events of the kind asked for,
\* one per slot: the slices the loop can build, one for each order of the
\* map iteration
eventsOfKind(ns, kind) ==
    {[i \in DOMAIN o |-> ns.events[o[i]]] :
        o \in RangeOrders({d \in DOMAIN ns.events :
                              ns.events[d].kind = kind})}

\* GetEvents lines 144-150: collect the events of the node state,
\* ns.mu.RUnlock(), and the next round of the loop
GetNodeRead(t) ==
    /\ pc[t] = "gNodeRead"
    /\ \E evs \in eventsOfKind(nodes[nsp[t]], Deref(garg[t]).kind) :
          gres' = [gres EXCEPT ![t] = @ \o evs]
    /\ nmu' = [nmu EXCEPT ![nsp[t]].readers = @ \ {t}]
    /\ gsnap' = [gsnap EXCEPT ![t] = @ \ {nsp[t]}]
    /\ GetNext(t, gsnap[t] \ {nsp[t]})
    /\ UNCHANGED <<storeVars, batchVars, verifyVars, pubVars, syncVars,
                   clientVars, smu, cur, ret, race, garg, gseen>>

\* the caller has the events and may call again
GetReturn(t) ==
    /\ pc[t] = "gdone"
    /\ pc' = [pc EXCEPT ![t] = "idle"]
    /\ garg' = [garg EXCEPT ![t] = Nil]
    /\ gres' = [gres EXCEPT ![t] = <<>>]
    /\ gseen' = [gseen EXCEPT ![t] = Nil]
    /\ UNCHANGED <<storeVars, batchVars, verifyVars, pubVars, syncVars,
                   clientVars, smu, nmu, cur, nsp, ret, race, gsnap>>

NextConcRead ==
    \E t \in Goroutines :
        \/ \E ev \in ReadEvents : Call(t, ev)
        \/ StoreRLock(t)
        \/ StoreRead(t)
        \/ StoreLock(t)
        \/ StoreCreate(t)
        \/ NodeLock(t)
        \/ NodeCheck(t)
        \/ NodeCommit(t)
        \/ Return(t)
        \/ GetCall(t)
        \/ GetRLock(t)
        \/ GetSnapshot(t)
        \/ GetNodeRLock(t)
        \/ GetNodeRead(t)
        \/ GetReturn(t)

SpecConcRead == InitConcRead /\ [][NextConcRead]_vars

(***************************************************************************)
(* Specification SpecVerify: one call of Event.Verify, check by check, on  *)
(* an event a relay or a caller can hand in.  The clock reads VerifyNow.   *)
(***************************************************************************)
VerifyNow == 1000

VerifyTimes ==
    {VerifyNow, VerifyNow + EventGracePeriodSeconds,
     VerifyNow + EventGracePeriodSeconds + 1}

VerifyContents ==
    {[len |-> n, data |-> "{}"] : n \in {0, MaxContentSize, MaxContentSize + 1}}

\* 'd' and 'k' tags: well formed ones, and one defect each
DefectTags ==
    {<<<<TagD, Join(<<Itoa(KindNodeInfo), NodeP, Str("badnet")>>)>>,
       <<TagK, Itoa(KindNodeInfo)>>>>,
     <<<<TagD, Join(<<Itoa(KindNodeInfo), NodeP>>)>>,
       <<TagK, Itoa(KindNodeInfo)>>>>,
     <<<<TagK, Itoa(KindNodeInfo)>>>>,
     <<<<TagD, NodeP>>>>,
     <<<<TagD, NodeP>>, <<TagK, Str("x")>>>>,
     <<<<TagD, Join(<<Itoa(KindNodeInfo), NodeP, Mainnet>>)>>,
       <<TagK, <<"0", "1">>>>>>,
     <<<<TagD, NodeP>>, <<TagK, <<"+", "0">>>>>>,
     <<<<TagD, Join(<<Itoa(7), NodeP, Mainnet>>)>>,
       <<TagK, Itoa(KindNodeInfo)>>>>,
     <<<<TagD, NodeP>>, <<TagD, NodeQ>>, <<TagK, Itoa(KindNodeAnnouncement)>>>>,
     <<<<TagD, Join(<<Itoa(KindNodeInfo), NodeP, Mainnet>>)>>,
       <<TagK, Itoa(KindNodeInfo)>>, <<TagK, Itoa(KindNodeAnnouncement)>>>>,
     <<<<TagD>>, <<TagK, Itoa(KindNodeAnnouncement)>>>>,
     <<<<TagD, NodeP>>, <<TagK>>>>}

SignedTags == {AnnouncementTags(NodeP), InfoTags(NodeP, <<>>)}

LnSigVariants ==
    {"none", "valid", "otherkey", "othermsg", "otherpub", "othercontent",
     "undecodable", "short", "two", "valueless", "validAndValueless"}

\* the event without ID and Sig
Draft(pk, t, tags, content) ==
    [Unsigned(t, tags) EXCEPT !.PubKey = pk, !.Content = content]

\* the 'sig' tag signWithLn appends for the node ln
LnSigTag(ln, ne) ==
    <<TagSig, LnSignMessage(ln, Hash([NostrEvent |-> ne,
                                      kind |-> KindNodeAnnouncement,
                                      finalized |-> TRUE, id |-> Nil]))>>

WithLnSig(ne, v) ==
    CASE v = "none" -> ne
      [] v = "valid" ->
            [ne EXCEPT !.Tags = Append(@, LnSigTag(NodeP, ne))]
      [] v = "otherkey" ->
            [ne EXCEPT !.Tags = Append(@, LnSigTag(NodeQ, ne))]
      [] v = "othermsg" ->
            [ne EXCEPT !.Tags = Append(@,
                LnSigTag(NodeP, [ne EXCEPT !.CreatedAt = @ + 1]))]
      [] v = "otherpub" ->
            [ne EXCEPT !.Tags = Append(@,
                LnSigTag(NodeP, [ne EXCEPT !.PubKey = KeyB]))]
      [] v = "othercontent" ->
            [ne EXCEPT !.Tags = Append(@,
                LnSigTag(NodeP, [ne EXCEPT !.Content.len = @ + 1]))]
      [] v = "undecodable" ->
            [ne EXCEPT !.Tags = Append(@, <<TagSig, Str("!")>>)]
      [] v = "short" ->
            [ne EXCEPT !.Tags = Append(@, <<TagSig, Str("zbase32")>>)]
      [] v = "two" ->
            [ne EXCEPT !.Tags = Append(Append(@, LnSigTag(NodeP, ne)),
                                       LnSigTag(NodeP, ne))]
      \* a tag named 'sig' that has no value
      [] v = "valueless" -> [ne EXCEPT !.Tags = Append(@, <<TagSig>>)]
      [] v = "validAndValueless" ->
            [ne EXCEPT !.Tags = Append(Append(@, <<TagSig>>),
                                       LnSigTag(NodeP, ne))]

NostrSigVariants == {"valid", "otherkey", "malformed"}

WithNostrSig(ne, v) ==
    LET signed == NostrSign(ne, ne.PubKey)
    IN  CASE v = "valid" -> signed
          [] v = "otherkey" ->
                [signed EXCEPT !.Sig = Ptr([Deref(@) EXCEPT !.key = KeyB])]
          [] v = "malformed" ->
                [signed EXCEPT !.Sig = Ptr([Deref(@) EXCEPT !.wf = FALSE])]

\* the ID taken from another event
WithForeignID(ne) ==
    [ne EXCEPT !.ID = Ptr(GetID([ne EXCEPT !.CreatedAt = @ + 1]))]

\* the signed event with one byte of its content changed
WithOtherContent(ne) == [ne EXCEPT !.Content.data = "{x}"]

\* the signed event with one more tag
WithExtraTag(ne) == [ne EXCEPT !.Tags = Append(@, <<Str("t"), Str("x")>>)]

VerifyNostrEvents ==
    LET drafts ==
            {Draft(pk, t, tags, c) :
                pk \in {KeyA, EmptyStr}, t \in VerifyTimes,
                tags \in DefectTags \cup SignedTags, c \in VerifyContents}
        withLn ==
            drafts \cup {WithLnSig(ne, v) :
                            ne \in {d \in drafts : d.Tags \in SignedTags},
                            v \in LnSigVariants}
        signed ==
            {WithNostrSig(ne, v) : ne \in withLn, v \in NostrSigVariants}
    IN  signed \cup {WithForeignID(ne) : ne \in signed}
               \cup {WithOtherContent(ne) : ne \in signed}
               \cup {WithExtraTag(ne) : ne \in signed}

\* the events Verify is called on: those NewEventFromNostrRelay builds and
\* the literals Event{NostrEvent: ne}
VerifyEvents ==
    {Deref(NewEventFromNostrRelay(ne).e) :
        ne \in {n \in VerifyNostrEvents :
                    NewEventFromNostrRelay(n).err = NoError}}
    \cup {[NostrEvent |-> ne, kind |-> 0, finalized |-> FALSE, id |-> Nil] :
            ne \in VerifyNostrEvents}

InitVerify ==
    /\ InitStore
    /\ NoBatch
    /\ NoGoroutines
    /\ vev \in {Ptr(e) : e \in VerifyEvents}
    /\ vpc = "start"
    /\ vtrace = <<>>
    /\ vres = [valid |-> FALSE, err |-> NoError]
    /\ NoPublish
    /\ NoSync
    /\ NoClientPublish
    /\ NoReaders

\* Verify evaluates check c: a failing check returns its error, a passing
\* one leads to the next check or to "return true, nil"
VerifyStep(c) ==
    /\ vpc = c
    /\ LET e  == Deref(vev)
           r  == checkOutcome(c, e, VerifyNow)
           e2 == IF c = "identifier" THEN GetIdentifier(e).e ELSE e
           n  == checkAfter(c, e2)
       IN  /\ vev' = Ptr(e2)
           /\ vtrace' = Append(vtrace, c)
           /\ IF ~r.ok
              THEN /\ vpc' = "done"
                   /\ vres' = [valid |-> FALSE, err |-> r.err]
              ELSE IF n = "return"
              THEN /\ vpc' = "done"
                   /\ vres' = [valid |-> TRUE, err |-> NoError]
              ELSE /\ vpc' = n
                   /\ UNCHANGED vres
    /\ UNCHANGED <<readVars, clientVars, syncVars, storeVars, batchVars, concVars, pubVars>>

\* the call enters Verify
VerifyCall ==
    /\ vpc = "start"
    /\ vpc' = checkAfter("start", Deref(vev))
    /\ UNCHANGED <<readVars, clientVars, syncVars, storeVars, batchVars, concVars, pubVars, vev, vtrace, vres>>

VerifyTimestamp == VerifyStep("timestamp")
VerifyID == VerifyStep("id")
VerifySize == VerifyStep("size")
VerifyIdentifier == VerifyStep("identifier")
VerifyNetwork == VerifyStep("network")
VerifyKindTag == VerifyStep("kind")
VerifyNostrSig == VerifyStep("nostrsig")
VerifyLnSig == VerifyStep("lnsig")

NextVerify ==
    \/ VerifyCall
    \/ VerifyTimestamp
    \/ VerifyID
    \/ VerifySize
    \/ VerifyIdentifier
    \/ VerifyNetwork
    \/ VerifyKindTag
    \/ VerifyNostrSig
    \/ VerifyLnSig

SpecVerify == InitVerify /\ [][NextVerify]_vars

(***************************************************************************)
(* Specification SpecPublish: an Event is built as Client.Publish builds   *)
(* it, by Finalize, SignEvent and Verify, called in any order.  SignEvent  *)
(* runs step by step; either signer can fail.                              *)
(***************************************************************************)
MaxPublishOps == 3

\* the keys the signers of the CombinedSigner hold
NostrSignerKey == KeyA
LnSignerKey == NodeP

ColonKey == <<"P", ":", "Q">>
ColonOpt == <<"x", ":", "y">>

\* the arguments of Finalize
FinalizeArgs ==
    [network : {Mainnet, Str("badnet")},
     pubkey  : {NodeP, NodeQ, ColonKey},
     kind    : {KindNodeAnnouncement, KindNodeInfo},
     opts    : {<<>>, <<OptX>>, <<ColonOpt>>}]

\* Event{NostrEvent: &nostr.Event{PubKey, CreatedAt, Content}}, and such
\* events that carry a tag already
Drafts ==
    {[NostrEvent |-> [PubKey |-> pk, CreatedAt |-> t, Kind |-> 0,
                      Tags |-> tags, Content |-> c, ID |-> Nil, Sig |-> Nil],
      kind |-> 0, finalized |-> FALSE, id |-> Nil] :
        pk \in {NostrSignerKey, EmptyStr},
        t \in {VerifyNow, VerifyNow + EventGracePeriodSeconds + 1},
        tags \in {<<>>, <<<<TagSig, Str("old")>>>>, <<<<TagSig>>>>,
                  <<<<TagD, NodeQ>>>>, <<<<TagK, Itoa(KindNodeInfo)>>>>,
                  <<<<TagD>>>>, <<<<TagK>>>>},
        c \in VerifyContents}

InitPublish ==
    /\ InitStore
    /\ NoBatch
    /\ NoGoroutines
    /\ NoVerify
    /\ NoSync
    /\ NoClientPublish
    /\ NoReaders
    /\ \E e \in Drafts, a \in FinalizeArgs :
          /\ pev = Ptr(e)
          /\ pin = Ptr([network |-> a.network, pubkey |-> a.pubkey,
                        kind |-> a.kind, opts |-> a.opts,
                        pub |-> e.NostrEvent.PubKey])
    /\ ppc = "idle"
    /\ pcalls = <<>>
    /\ pops = <<>>

Returned(op, err, valid) == [op |-> op, err |-> err, valid |-> valid]

PublishIdle ==
    /\ ppc = "idle"
    /\ Len(pops) < MaxPublishOps

\* ev.Finalize(network, pubkey, kind, opts)
FinalizeEvent ==
    /\ PublishIdle
    /\ LET a == Deref(pin)
           r == Finalize(Deref(pev), a.network, a.pubkey, a.kind, a.opts)
       IN  /\ pev' = Ptr(r.e)
           /\ pops' = Append(pops, Returned("Finalize", r.err, FALSE))
    /\ UNCHANGED <<readVars, clientVars, syncVars, storeVars, batchVars, concVars, verifyVars, pin, ppc, pcalls>>

\* SignEvent returns err
SignReturn(err) ==
    /\ ppc' = "idle"
    /\ pops' = Append(pops, Returned("SignEvent", err, FALSE))

\* SignEvent goes on at position next
SignGoOn(next) ==
    IF next = "return" THEN SignReturn(NoError)
    ELSE ppc' = next /\ UNCHANGED pops

\* signer.SignEvent(ctx, ev): the finalized test
SignEventCall ==
    /\ PublishIdle
    /\ pcalls' = <<>>
    /\ IF ~Deref(pev).finalized THEN SignReturn(ErrNotFinalized)
       ELSE SignGoOn(signNext("call", Deref(pev)))
    /\ UNCHANGED <<readVars, clientVars, syncVars, storeVars, batchVars, concVars, verifyVars, pev, pin>>

\* signWithLn: the 'sig' tag test, LnSigner.SignMessage(ev.Hash()), and the
\* 'sig' tag appended
SignWithLn ==
    /\ ppc = "signWithLn"
    /\ LET e == Deref(pev)
       IN  IF Find(e.NostrEvent.Tags, TagSig) # Nil
           THEN /\ SignReturn(ErrDuplicateSig)
                /\ UNCHANGED <<pev, pcalls>>
           ELSE /\ pcalls' = Append(pcalls, "ln")
                /\ \/ /\ SignReturn(ErrLnSigner)
                      /\ UNCHANGED pev
                   \/ LET sig == LnSignMessage(LnSignerKey, Hash(e))
                          e2  == [e EXCEPT !.NostrEvent.Tags =
                                              Append(@, <<TagSig, sig>>)]
                      IN  /\ pev' = Ptr(e2)
                          /\ SignGoOn(signNext("signWithLn", e2))
    /\ UNCHANGED <<readVars, clientVars, syncVars, storeVars, batchVars, concVars, verifyVars, pin>>

\* NostrSigner.SignEvent(ctx, ev.NostrEvent): sets PubKey, ID and Sig
SignWithNostr ==
    /\ ppc = "nostrSign"
    /\ pcalls' = Append(pcalls, "nostr")
    /\ \/ /\ SignReturn(ErrNostrSigner)
          /\ UNCHANGED pev
       \/ LET e2 == [Deref(pev) EXCEPT !.NostrEvent =
                                          NostrSign(@, NostrSignerKey)]
          IN  /\ pev' = Ptr(e2)
              /\ SignGoOn(signNext("nostrSign", e2))
    /\ UNCHANGED <<readVars, clientVars, syncVars, storeVars, batchVars, concVars, verifyVars, pin>>

\* ev.Verify()
VerifyEvent ==
    /\ PublishIdle
    /\ LET r == Verify(Deref(pev), VerifyNow)
       IN  /\ pev' = Ptr(r.e)
           /\ pops' = Append(pops, Returned("Verify", r.err, r.valid))
    /\ UNCHANGED <<readVars, clientVars, syncVars, storeVars, batchVars, concVars, verifyVars, pin, ppc, pcalls>>

NextPublish ==
    \/ FinalizeEvent
    \/ SignEventCall
    \/ SignWithLn
    \/ SignWithNostr
    \/ VerifyEvent

SpecPublish == InitPublish /\ [][NextPublish]_vars

(***************************************************************************)
(* SpecSync: one call of Client.GetEvents on a new Client, step by step.   *)
(* The relay pool is the environment: a pass fetches any set of records    *)
(* that match the pass's filter, one per replaceable key, and Range visits *)
(* them in any order.  The context may be cancelled at any moment.  The    *)
(* calls of the store run as in SpecConc and SpecConcRead: a step is one   *)
(* lock operation together with the code that follows it up to the next    *)
(* lock operation.  No other goroutine uses the Client.                    *)
(***************************************************************************)
ErrFetchAnnouncements == "fetching node announcements: context canceled"
ErrFetchKind == "fetching events of kind: context canceled"

\* GetEvents fetching the requested kind before the Node Announcements
passKindRequestedFirst(n, kind) ==
    IF n = 1 THEN kind ELSE KindNodeAnnouncement

\* the 'k' tag value GetEvents puts into the filter of pass n
passKind(n, kind) == IF n = 1 THEN KindNodeAnnouncement ELSE kind

\* nostr.Filter.Matches for the filter of GetEvents: the nostr kind and one
\* 'k' tag with the value asked for (every record is newer than Since)
MatchesFilter(ne, k) ==
    /\ ne.Kind = KindLightningInformation
    /\ \E i \in DOMAIN ne.Tags :
          /\ Len(ne.Tags[i]) >= 2
          /\ ne.Tags[i][1] = TagK
          /\ ne.Tags[i][2] = Itoa(k)

\* nostr.ReplaceableKey of a record: its PubKey and the value of its 'd' tag
ReplaceableKey(ne) ==
    LET d == Find(ne.Tags, TagD)
    IN  <<ne.PubKey, IF d = Nil THEN EmptyStr ELSE Deref(d)[2]>>

\* the records the relays hold, by name
SyncRecords ==
    [annPA |-> RelayAnnouncement(NodeP, KeyA, 1),
     annPB |-> RelayAnnouncement(NodeP, KeyB, 2),
     annQA |-> RelayAnnouncement(NodeQ, KeyA, 1),
     \* an announcement without Lightning signature
     annQBnoLn |-> NostrSign(Unsigned(1, AnnouncementTags(NodeQ)), KeyB),
     infoPA |-> RelayInfo(NodeP, KeyA, 1, <<>>),
     infoPB |-> RelayInfo(NodeP, KeyB, 1, <<>>),
     \* a Node Info whose nostr signature is another key's
     infoQAbadSig |->
         WithNostrSig([Unsigned(2, InfoTags(NodeQ, <<>>))
                          EXCEPT !.PubKey = KeyA], "otherkey"),
     \* a record whose 'd' tag has two parts only
     infoShort |->
         NostrSign(Unsigned(1, <<<<TagD, <<"1", Colon, "P">>>>,
                                 <<TagK, Itoa(KindNodeInfo)>>>>), KeyA)]

\* the record of a name
Rec(name) == SyncRecords[name]

\* SimplePool.FetchManyReplaceable(ctx, urls, filter): what it may return
FetchManyReplaceable(k) ==
    {S \in SUBSET {n \in DOMAIN SyncRecords : MatchesFilter(Rec(n), k)} :
        \A x, y \in S :
            x # y => ReplaceableKey(Rec(x)) # ReplaceableKey(Rec(y))}

\* what the function handed to Range does with one record before it
\* returns or calls StoreEvent: the record is rejected with an error
\* appended to fetchErrors, or lev goes to c.store.StoreEvent
Rejects(outcome) == [outcome |-> outcome, warnings |-> 1, lev |-> Nil]
Stores(lev) == [outcome |-> "call", warnings |-> 0, lev |-> Ptr(lev)]

\* syncStoreWithPool dropping the error of StoreEvent
syncStoredSilent(err) ==
    [outcome |-> IF err # NoError THEN "store" ELSE "stored", warnings |-> 0]

\* after c.store.StoreEvent(lev) returned err: what became of the record
\* and the number of errors appended to fetchErrors
syncStored(err) ==
    [outcome |-> IF err # NoError THEN "store" ELSE "stored",
     warnings |-> IF err # NoError THEN 1 ELSE 0]

\* Mutant: syncStoreWithPool looking at the error of Verify only
syncVerifiedErrOnly(v) ==
    IF v.err # NoError THEN Rejects("verify") ELSE Stores(v.e)

\* after lev.Verify() returned v
syncVerified(v) ==
    IF ~v.valid \/ v.err # NoError THEN Rejects("verify") ELSE Stores(v.e)

\* after NewEventFromNostrRelay(ev) returned n
syncParsed(n, now) ==
    IF n.err # NoError THEN Rejects("parse")
    ELSE syncVerified(Verify(Deref(n.e), now))

\* the function syncStoreWithPool hands to Range, after its ctx.Err() test
\* and up to its call of StoreEvent
syncRecord(ne, now) == syncParsed(NewEventFromNostrRelay(ne), now)

SyncKinds == {KindNodeAnnouncement, KindNodeInfo}
SyncFilters == {{}, {NodeP}}

InitSync ==
    /\ InitStore
    /\ NoBatch
    /\ NoGoroutines
    /\ NoVerify
    /\ NoPublish
    /\ NoSync
    /\ NoClientPublish
    /\ NoReaders

At(at, n) == [at |-> at, pass |-> n]

\* GetEvents is called and sets the filter of the first pass
GetEventsCall ==
    /\ spc.at = "idle"
    /\ \E kind \in SyncKinds, pubkeys \in SyncFilters :
          sarg' = Ptr([kind |-> kind, pubkeys |-> pubkeys])
    /\ spc' = At("fetch", 1)
    /\ UNCHANGED <<storeVars, batchVars, concVars, verifyVars, pubVars, clientVars,
                   readVars,
                   sgot, sleft, slog, swarn, sret, scancel, sne>>

\* syncStoreWithPool: res := c.pool.FetchManyReplaceable(ctx, urls, filter)
SyncFetch ==
    /\ spc.at = "fetch"
    /\ \E S \in FetchManyReplaceable(passKind(spc.pass, Deref(sarg).kind)) :
          /\ sgot' = [sgot EXCEPT ![spc.pass] = Ptr(S)]
          /\ sleft' = S
    /\ swarn' = [swarn EXCEPT !.local = 0]
    /\ spc' = At("range", spc.pass)
    /\ UNCHANGED <<storeVars, batchVars, concVars, verifyVars, pubVars, clientVars,
                   readVars,
                   sarg, slog, sret, scancel, sne>>

\* Range going on without regard to ctx
rangeGoesOnAlways(cancelled) == TRUE

\* the function handed to Range first tests ctx.Err() and returns false, which
\* ends Range, when ctx is cancelled
rangeGoesOn(cancelled) == ~cancelled

\* the goroutine that runs the call of Client.GetEvents
SyncCaller == CHOOSE t \in Goroutines : \A u \in Goroutines : t <= u

\* the function handed to Range for record ne, after its ctx.Err() test: r is
\* what parsing and Verify made of the record.  A rejected record is logged
\* and the function returns; another one is handed to StoreEvent, which
\* runs up to its first lock operation.
SyncVisit(ne, r) ==
    /\ sleft' = sleft \ {ne}
    /\ IF r.lev = Nil
       THEN /\ slog' = Append(slog, [pass |-> spc.pass, ne |-> ne,
                                     outcome |-> r.outcome])
            /\ swarn' = [swarn EXCEPT !.local = @ + r.warnings]
            /\ UNCHANGED <<spc, sne, pc, cur, ret, race>>
       ELSE /\ storeEventEntry(SyncCaller, Deref(r.lev))
            /\ sne' = Ptr(ne)
            /\ spc' = At("store", spc.pass)
            /\ UNCHANGED <<slog, swarn>>

\* one call of the function handed to Range, from its ctx.Err() test to its
\* return for a record that fails parsing or Verify, or to the first lock
\* operation of StoreEvent
SyncRange ==
    /\ spc.at = "range"
    /\ sleft # {}
    /\ IF ~rangeGoesOn(scancel)
       THEN /\ spc' = At("after", spc.pass)
            /\ UNCHANGED <<sleft, slog, swarn, sne, pc, cur, ret, race>>
       ELSE \E ne \in sleft : SyncVisit(ne, syncRecord(Rec(ne), VerifyNow))
    /\ UNCHANGED <<storeVars, batchVars, verifyVars, pubVars, clientVars,
                   readVars, smu, nmu, nsp,
                   sarg, sgot, sret, scancel>>

\* c.store.StoreEvent(lev) has returned: its error is appended to
\* fetchErrors, and the function handed to Range returns true
SyncStoreReturn ==
    /\ spc.at = "store"
    /\ pc[SyncCaller] = "done"
    /\ slog' = Append(slog, [pass |-> spc.pass, ne |-> Deref(sne),
                             outcome |-> syncStored(ret[SyncCaller]).outcome])
    /\ swarn' = [swarn EXCEPT
                    !.local = @ + syncStored(ret[SyncCaller]).warnings]
    /\ sne' = Nil
    /\ spc' = At("range", spc.pass)
    /\ pc' = [pc EXCEPT ![SyncCaller] = "idle"]
    /\ cur' = [cur EXCEPT ![SyncCaller] = Nil]
    /\ nsp' = [nsp EXCEPT ![SyncCaller] = 0]
    /\ ret' = [ret EXCEPT ![SyncCaller] = NoError]
    /\ UNCHANGED <<storeVars, batchVars, verifyVars, pubVars, clientVars,
                   readVars, smu, nmu, race,
                   sarg, sgot, sleft, sret, scancel>>

\* Range has visited every record
SyncRangeEnd ==
    /\ spc.at = "range"
    /\ sleft = {}
    /\ spc' = At("after", spc.pass)
    /\ UNCHANGED <<storeVars, batchVars, concVars, verifyVars, pubVars, clientVars,
                   readVars,
                   sarg, sgot, sleft, slog, swarn, sret, scancel, sne>>

\* where GetEvents goes on after a pass that returned no error: with the
\* second pass, or with c.store.GetEvents
afterPass(n, kind) ==
    IF n = 1 /\ kind # KindNodeAnnouncement THEN At("fetch", 2)
    ELSE At("read", n)

\* the error GetEvents returns when pass n returned ctx.Err()
fatalOf(n) == IF n = 1 THEN ErrFetchAnnouncements ELSE ErrFetchKind

\* syncStoreWithPool has returned no error: GetEvents appends the pass's
\* fetchErrors to its own and begins the second pass, or calls
\* c.store.GetEvents, which runs up to its first lock operation
SyncPassEnded ==
    /\ swarn' = [swarn EXCEPT !.total = swarn.total + swarn.local]
    /\ spc' = afterPass(spc.pass, Deref(sarg).kind)
    /\ IF spc'.at = "read"
       THEN getEventsEntry(SyncCaller, Deref(sarg).kind, Deref(sarg).pubkeys)
       ELSE UNCHANGED <<garg, gseen, gres, pc>>
    /\ sret' = sret

\* Mutant: GetEvents returning the warnings collected so far with the
\* fatal error
SyncReturnWithWarnings ==
    /\ spc.at = "after"
    /\ IF scancel
       THEN /\ sret' = Ptr([events |-> <<>>,
                            err |-> fatalOf(spc.pass),
                            warnings |-> swarn.total + swarn.local])
            /\ spc' = At("done", spc.pass)
            /\ UNCHANGED <<swarn, garg, gseen, gres, pc>>
       ELSE SyncPassEnded
    /\ UNCHANGED <<storeVars, batchVars, verifyVars, pubVars, clientVars,
                   smu, nmu, cur, nsp, ret, race, gsnap,
                   sarg, sgot, sleft, slog, scancel, sne>>

\* syncStoreWithPool returns after Range: with ctx.Err(), which GetEvents
\* returns wrapped and with neither events nor warnings, or with the pass's
\* fetchErrors, with which GetEvents goes on
SyncReturn ==
    /\ spc.at = "after"
    /\ IF scancel
       THEN /\ sret' = Ptr([events |-> <<>>,
                            err |-> fatalOf(spc.pass),
                            warnings |-> 0])
            /\ spc' = At("done", spc.pass)
            /\ UNCHANGED <<swarn, garg, gseen, gres, pc>>
       ELSE SyncPassEnded
    /\ UNCHANGED <<storeVars, batchVars, verifyVars, pubVars, clientVars,
                   smu, nmu, cur, nsp, ret, race, gsnap,
                   sarg, sgot, sleft, slog, scancel, sne>>

\* c.store.GetEvents has returned: GetEvents returns its events, no error
\* and fetchErrors
SyncGetReturn ==
    /\ spc.at = "read"
    /\ pc[SyncCaller] = "gdone"
    /\ sret' = Ptr([events |-> gres[SyncCaller], err |-> NoError,
                    warnings |-> swarn.total])
    /\ spc' = At("done", spc.pass)
    /\ pc' = [pc EXCEPT ![SyncCaller] = "idle"]
    /\ garg' = [garg EXCEPT ![SyncCaller] = Nil]
    /\ gres' = [gres EXCEPT ![SyncCaller] = <<>>]
    /\ gseen' = [gseen EXCEPT ![SyncCaller] = Nil]
    /\ UNCHANGED <<storeVars, batchVars, verifyVars, pubVars, clientVars,
                   smu, nmu, cur, nsp, ret, race, gsnap,
                   sarg, sgot, sleft, slog, swarn, scancel, sne>>

\* the caller cancels ctx
SyncCancel ==
    /\ spc.at \in {"fetch", "range", "store", "after", "read"}
    /\ ~scancel
    /\ scancel' = TRUE
    /\ UNCHANGED <<storeVars, batchVars, concVars, verifyVars, pubVars, clientVars,
                   readVars,
                   spc, sarg, sgot, sleft, slog, swarn, sret, sne>>

\* the steps of the calls of the store that GetEvents is in: those of
\* StoreEvent from its first lock operation to its return, and those of
\* MapStore.GetEvents
SyncStoreStep ==
    \/ StoreRLock(SyncCaller)
    \/ StoreRead(SyncCaller)
    \/ StoreLock(SyncCaller)
    \/ StoreCreate(SyncCaller)
    \/ NodeLock(SyncCaller)
    \/ NodeStore(SyncCaller)
    \/ GetRLock(SyncCaller)
    \/ GetSnapshot(SyncCaller)
    \/ GetNodeRLock(SyncCaller)
    \/ GetNodeRead(SyncCaller)

NextSync ==
    \/ GetEventsCall
    \/ SyncFetch
    \/ SyncRange
    \/ SyncStoreReturn
    \/ SyncRangeEnd
    \/ SyncReturn
    \/ SyncGetReturn
    \/ SyncStoreStep
    \/ SyncCancel

SpecSync == InitSync /\ [][NextSync]_vars

(***************************************************************************)
(* SpecClientPublish: one call of Client.Publish, step by step.  The       *)
(* Client was built by NewClient: c.pub is the nostr signer's public key   *)
(* and c.info the Lightning node's network and public key.  The signers    *)
(* are behind interfaces and may fail or sign wrongly.                     *)
(***************************************************************************)
ErrMarshal == "marshaling node info"
ErrFinalizing == "finalizing event"
ErrSigning == "signing event"
ErrVerifying == "verifying event before publish"

\* c.pub and c.info
ClientPub == NostrSignerKey
ClientInfo == [Network |-> Mainnet, PubKey |-> LnSignerKey]

\* json.Marshal(data): the content, or an error for data that has no JSON
Marshal(data) ==
    CASE data = "unmarshalable" -> [content |-> Nil, err |-> ErrMarshal]
      [] data = "big" ->
            [content |-> Ptr([len |-> MaxContentSize + 1, data |-> "{}"]),
             err |-> NoError]
      [] data = "ok" -> [content |-> Ptr(EmptyContent), err |-> NoError]

\* Event{NostrEvent: &nostr.Event{PubKey: c.pub, CreatedAt: nostr.Now(),
\* Content: string(b)}}
NewDraft(content) ==
    [NostrEvent |-> [PubKey |-> ClientPub, CreatedAt |-> VerifyNow, Kind |-> 0,
                     Tags |-> <<>>, Content |-> content, ID |-> Nil,
                     Sig |-> Nil],
     kind |-> 0, finalized |-> FALSE, id |-> Nil]

LnSignerBehaviours == {"ok", "error", "otherkey"}
NostrSignerBehaviours == {"ok", "error", "badsig"}

\* CombinedSigner.signWithLn(ctx, ev) with a Lightning signer that signs,
\* fails, or signs with another key than the node's: [e, err]
signWithLn(e, ln) ==
    IF Find(e.NostrEvent.Tags, TagSig) # Nil
    THEN [e |-> e, err |-> ErrDuplicateSig]
    ELSE IF ln = "error" THEN [e |-> e, err |-> ErrLnSigner]
    ELSE [e |-> [e EXCEPT !.NostrEvent.Tags =
                    Append(@, <<TagSig,
                                LnSignMessage(IF ln = "otherkey" THEN NodeQ
                                              ELSE LnSignerKey, Hash(e))>>)],
          err |-> NoError]

\* NostrSigner.SignEvent(ctx, ev.NostrEvent) with a signer that signs, fails,
\* or leaves a signature that does not verify: [e, err]
signWithNostr(e, ns) ==
    IF ns = "error" THEN [e |-> e, err |-> ErrNostrSigner]
    ELSE [e |-> [e EXCEPT !.NostrEvent =
                    IF ns = "badsig"
                    THEN WithNostrSig([@ EXCEPT !.PubKey = NostrSignerKey],
                                      "otherkey")
                    ELSE NostrSign(@, NostrSignerKey)],
          err |-> NoError]

\* SignEvent after signWithLn, if called, returned r
signAfterLn(r, ns) ==
    IF r.err # NoError THEN r ELSE signWithNostr(r.e, ns)

\* CombinedSigner.SignEvent(ctx, ev): [e, err]
SignEvent(e, ln, ns) ==
    IF ~e.finalized THEN [e |-> e, err |-> ErrNotFinalized]
    ELSE IF RequiresLnSignature(e) THEN signAfterLn(signWithLn(e, ln), ns)
    ELSE signWithNostr(e, ns)

\* Publish handing the record to the pool whatever Verify said
publishNextSendUnverified(step, failed) ==
    IF failed /\ step # "Verify" THEN "done"
    ELSE CASE step = "Marshal" -> "Finalize"
           [] step = "Finalize" -> "SignEvent"
           [] step = "SignEvent" -> "Verify"
           [] step = "Verify" -> "PublishMany"
           [] step = "PublishMany" -> "done"

\* where Publish goes on after a step: it returns at the first failure
publishNext(step, failed) ==
    IF failed THEN "done"
    ELSE CASE step = "Marshal" -> "Finalize"
           [] step = "Finalize" -> "SignEvent"
           [] step = "SignEvent" -> "Verify"
           [] step = "Verify" -> "PublishMany"
           [] step = "PublishMany" -> "done"

PublishInputs ==
    [kind : {KindNodeAnnouncement, KindNodeInfo},
     opts : {<<>>, <<OptX>>},
     data : {"ok", "unmarshalable", "big"},
     ln   : LnSignerBehaviours,
     ns   : NostrSignerBehaviours]

InitClientPublish ==
    /\ InitStore
    /\ NoBatch
    /\ NoGoroutines
    /\ NoVerify
    /\ NoPublish
    /\ NoSync
    /\ NoClientPublish
    /\ NoReaders

\* a step of Publish returned: the log, the next position, and the error
\* Publish returns when the step failed
PublishStepDone(step, failed, err, wrapped) ==
    /\ clog' = Append(clog, [step |-> step, failed |-> failed, err |-> err])
    /\ cpc' = publishNext(step, failed)
    /\ cret' = IF failed THEN Ptr(wrapped) ELSE cret

\* Publish is called
PublishCall ==
    /\ cpc = "idle"
    /\ cret = Nil
    /\ \E in \in PublishInputs : cin' = Ptr(in)
    /\ cpc' = "Marshal"
    /\ UNCHANGED <<storeVars, batchVars, concVars, verifyVars, pubVars,
                   readVars, syncVars, cev, clog, csent, cret>>

\* b, err := json.Marshal(data), and ev := Event{...}
PublishMarshal ==
    /\ cpc = "Marshal"
    /\ LET r == Marshal(Deref(cin).data)
       IN  /\ PublishStepDone("Marshal", r.err # NoError, r.err, ErrMarshal)
           /\ cev' = IF r.err # NoError THEN cev
                     ELSE Ptr(NewDraft(Deref(r.content)))
    /\ UNCHANGED <<storeVars, batchVars, concVars, verifyVars, pubVars,
                   readVars, syncVars, cin, csent>>

\* ev.Finalize(c.info.Network, c.info.PubKey, kind, opts)
PublishFinalize ==
    /\ cpc = "Finalize"
    /\ LET r == Finalize(Deref(cev), ClientInfo.Network, ClientInfo.PubKey,
                         Deref(cin).kind, Deref(cin).opts)
       IN  /\ PublishStepDone("Finalize", r.err # NoError, r.err,
                              ErrFinalizing)
           /\ cev' = Ptr(r.e)
    /\ UNCHANGED <<storeVars, batchVars, concVars, verifyVars, pubVars,
                   readVars, syncVars, cin, csent>>

\* c.signer.SignEvent(ctx, &ev)
PublishSign ==
    /\ cpc = "SignEvent"
    /\ LET r == SignEvent(Deref(cev), Deref(cin).ln, Deref(cin).ns)
       IN  /\ PublishStepDone("SignEvent", r.err # NoError, r.err, ErrSigning)
           /\ cev' = Ptr(r.e)
    /\ UNCHANGED <<storeVars, batchVars, concVars, verifyVars, pubVars,
                   readVars, syncVars, cin, csent>>

\* ok, err := ev.Verify(); !ok || err != nil
PublishVerify ==
    /\ cpc = "Verify"
    /\ LET r == Verify(Deref(cev), VerifyNow)
       IN  /\ PublishStepDone("Verify", ~r.valid \/ r.err # NoError, r.err,
                              ErrVerifying)
           /\ cev' = Ptr(r.e)
    /\ UNCHANGED <<storeVars, batchVars, concVars, verifyVars, pubVars,
                   readVars, syncVars, cin, csent>>

\* res := c.pool.PublishMany(ctx, urls, *ev.NostrEvent), and the return
PublishMany ==
    /\ cpc = "PublishMany"
    /\ csent' = Append(csent, Deref(cev).NostrEvent)
    /\ clog' = Append(clog, [step |-> "PublishMany", failed |-> FALSE,
                             err |-> NoError])
    /\ cpc' = publishNext("PublishMany", FALSE)
    /\ cret' = Ptr(NoError)
    /\ UNCHANGED <<storeVars, batchVars, concVars, verifyVars, pubVars,
                   readVars, syncVars, cin, cev>>

NextClientPublish ==
    \/ PublishCall
    \/ PublishMarshal
    \/ PublishFinalize
    \/ PublishSign
    \/ PublishVerify
    \/ PublishMany

SpecClientPublish == InitClientPublish /\ [][NextClientPublish]_vars

(***************************************************************************)
(* Properties of the store (specification Spec).                           *)
(***************************************************************************)
\* goroutine t runs lines 52-56 of its call in this step: the record of the
\* call is RecOf(t), the node state it addresses is Pre(t) before and Post(t)
\* after the step, and the call returns Err(t)
BodyStep(t) == pc[t] = "locked" /\ pc'[t] = "done"
RecOf(t) == CurEv(t)
Pre(t) == nodes[nsp[t]]
Post(t) == nodes'[nsp[t]]
Err(t) == ret'[t]

\* t's call has run and has not yet handed its result to the caller
Ran(t) == pc[t] = "done" /\ cur[t] # Nil

\* C1: in every reachable state, every event of a node's slots that is not
\* a Node Announcement is signed by the nostr key of the node's last
\* accepted announcement (lastAnnouncement.pub).
C1_SlotsSignedByBoundIdentity ==
    \A p \in DOMAIN records :
        LET ns == nodes[records[p]]
        IN  \A d \in DOMAIN ns.events :
                ~IsAnnouncement(ns.events[d])
                    => Signer(ns.events[d]) = ns.lastAnnouncement.pub

\* node P was bound to A, is now bound to B and holds a Node Info of B
C1_Witness ==
    /\ displaced[NodeP][KeyA] > 0
    /\ NodeView(records, nodes, NodeP).lastAnnouncement.pub = KeyB
    /\ \E d \in DOMAIN NodeView(records, nodes, NodeP).events :
           ~IsAnnouncement(NodeView(records, nodes, NodeP).events[d])

AnnouncementStrictlyNewer(t) ==
    /\ IsAnnouncement(RecOf(t)) /\ Err(t) = NoError
           => CreatedAt(RecOf(t)) > Pre(t).lastAnnouncement.createdAt
    /\ IsAnnouncement(RecOf(t))
       /\ CreatedAt(RecOf(t)) <= Pre(t).lastAnnouncement.createdAt
           => /\ Err(t) = ErrStaleAnnouncement
              /\ Post(t).lastAnnouncement = Pre(t).lastAnnouncement

\* C2: a Node Announcement is accepted only with a created_at strictly
\* greater than lastAnnouncement.createdAt; one with an equal or smaller
\* created_at is rejected as stale and leaves lastAnnouncement as it was;
\* whenever a step changes lastAnnouncement, its createdAt grows strictly.
C2_AnnouncementStrictlyNewer ==
    /\ [][\A t \in Goroutines :
             BodyStep(t) => AnnouncementStrictlyNewer(t)]_vars
    /\ [][\A i \in DOMAIN nodes :
             nodes'[i].lastAnnouncement # nodes[i].lastAnnouncement
                 => nodes'[i].lastAnnouncement.createdAt
                        > nodes[i].lastAnnouncement.createdAt]_vars

\* an announcement by another key with the created_at of the current one
\* was rejected as stale
C2_Witness ==
    \E t \in Goroutines :
        /\ Ran(t) /\ IsAnnouncement(RecOf(t))
        /\ ret[t] = ErrStaleAnnouncement
        /\ CreatedAt(RecOf(t)) = nodes[nsp[t]].lastAnnouncement.createdAt
        /\ CreatedAt(RecOf(t)) > 0
        /\ Signer(RecOf(t)) # nodes[nsp[t]].lastAnnouncement.pub
        /\ pc[Other(t)] = "idle"

CompromiseContainment(t) ==
    IsAnnouncement(RecOf(t)) /\ Err(t) = NoError =>
        IF Signer(RecOf(t)) # Pre(t).lastAnnouncement.pub
        THEN /\ DOMAIN Post(t).events = {CurId(t).TagD}
             /\ Post(t).events[CurId(t).TagD] = RecOf(t)
             /\ Post(t).lastAnnouncement.pub = Signer(RecOf(t))
        ELSE \A d \in DOMAIN Pre(t).events :
                 ~IsAnnouncement(Pre(t).events[d])
                     => /\ d \in DOMAIN Post(t).events
                        /\ Post(t).events[d] = Pre(t).events[d]

\* C3: an accepted Node Announcement whose PubKey differs from the bound
\* identity leaves the node with exactly one slot, the new announcement;
\* one with the same PubKey keeps every slot that is not an announcement.
C3_CompromiseContainment ==
    [][\A t \in Goroutines : BodyStep(t) => CompromiseContainment(t)]_vars

\* node P was bound to A only, a Node Info by A was accepted, and the
\* announcement by B that rebound the node has left it as the only slot
C3_Witness ==
    \E t \in Goroutines :
        /\ Ran(t) /\ IsAnnouncement(RecOf(t)) /\ ret[t] = NoError
        /\ Signer(RecOf(t)) = KeyB
        /\ nodes[nsp[t]].lastAnnouncement.createdAt = CreatedAt(RecOf(t))
        /\ displaced[NodeP][KeyA] = CreatedAt(RecOf(t))
        /\ displaced[NodeP][KeyB] = 0
        /\ Ran(Other(t)) /\ ~IsAnnouncement(RecOf(Other(t)))
        /\ ret[Other(t)] = NoError
        /\ Signer(RecOf(Other(t))) = KeyA
        /\ CurId(Other(t)).PubKey = NodeP
        /\ DOMAIN nodes[nsp[t]].events = {NodeP}

DisplacedIdentityRejected(t, k) ==
    /\ ~IsAnnouncement(RecOf(t))
           => /\ Err(t) = ErrUntrustedSigner
              /\ Post(t) = Pre(t)
    /\ IsAnnouncement(RecOf(t))
       /\ CreatedAt(RecOf(t)) <= displaced[CurId(t).PubKey][k]
           => /\ Err(t) = ErrStaleAnnouncement
              /\ Post(t) = Pre(t)

\* C4: once an announcement with created_at tB has replaced the bound
\* identity k of node p, then as long as k is not bound again every
\* record of p signed by k that is not an announcement is rejected as
\* untrusted and every announcement by k with created_at <= tB as stale;
\* and k is bound again only by an announcement newer than tB.
C4_DisplacedIdentityStaysOut ==
    /\ [](\A p \in DOMAIN displaced : \A k \in DOMAIN displaced[p] :
             displaced[p][k] > 0
             /\ NodeView(records, nodes, p).lastAnnouncement.pub = k
                 => NodeView(records, nodes, p).lastAnnouncement.createdAt
                        > displaced[p][k])
    /\ [][\A t \in Goroutines :
             BodyStep(t)
             /\ displaced[CurId(t).PubKey][Signer(RecOf(t))] > 0
             /\ Pre(t).lastAnnouncement.pub # Signer(RecOf(t))
                 => DisplacedIdentityRejected(t, Signer(RecOf(t)))]_vars

\* A was bound, replaced by B, and is bound again, and a Node Info by B has
\* been rejected since
C4_Witness ==
    /\ displaced[NodeP][KeyA] > 0
    /\ displaced[NodeP][KeyB] > displaced[NodeP][KeyA]
    /\ NodeView(records, nodes, NodeP).lastAnnouncement.pub = KeyA
    /\ \E t \in Goroutines :
          /\ Ran(t) /\ ~IsAnnouncement(RecOf(t))
          /\ Signer(RecOf(t)) = KeyB
          /\ ret[t] = ErrUntrustedSigner

\* a slot of the node addressed by t's call was occupied before the step
\* and holds another event after it
Overwritten(t, d) ==
    /\ d \in DOMAIN Pre(t).events
    /\ d \in DOMAIN Post(t).events
    /\ Post(t).events[d] # Pre(t).events[d]

\* the slot of the record of t's call holds, before the step, an event with
\* a created_at greater than or equal to that of the record
SlotNotOlder(t) ==
    /\ CurId(t).TagD \in DOMAIN Pre(t).events
    /\ CreatedAt(Pre(t).events[CurId(t).TagD]) >= CreatedAt(RecOf(t))

OverwriteStrictlyNewer(t) ==
    \A d \in DOMAIN Pre(t).events :
        Overwritten(t, d) => CreatedAt(Post(t).events[d])
                                 > CreatedAt(Pre(t).events[d])

\* C6 as claimed: a record that is not an announcement and whose slot holds
\* an event with created_at >= its own is rejected with StaleRecord, the
\* slot unchanged; every overwrite of an occupied slot is by a strictly
\* greater created_at.  (Stated for nodes that have an accepted
\* announcement, so that a violation does not rest on the records C8 is
\* about.)
C6_Original ==
    [][\A t \in Goroutines : BodyStep(t) =>
          /\ ~IsAnnouncement(RecOf(t)) /\ SlotNotOlder(t)
             /\ Pre(t).lastAnnouncement.createdAt > 0
                 => /\ Err(t) = ErrStaleRecord
                    /\ Post(t).events = Pre(t).events
          /\ OverwriteStrictlyNewer(t)]_vars

\* C6 as amended: such a record is rejected and the slot unchanged; the
\* error is StaleRecord when the record is signed by the bound identity
\* and UntrustedSigner otherwise (the signer is checked first); every
\* overwrite of an occupied slot is by a strictly greater created_at.
C6_SlotMonotonic ==
    [][\A t \in Goroutines : BodyStep(t) =>
          /\ ~IsAnnouncement(RecOf(t)) /\ SlotNotOlder(t)
                 => /\ Err(t) = IF Signer(RecOf(t)) = Pre(t).lastAnnouncement.pub
                                THEN ErrStaleRecord ELSE ErrUntrustedSigner
                    /\ Post(t).events = Pre(t).events
          /\ OverwriteStrictlyNewer(t)]_vars

\* a Node Info of the bound identity with the created_at of the slot's
\* event was rejected as stale
C6_Witness ==
    \E t \in Goroutines :
        /\ Ran(t) /\ ~IsAnnouncement(RecOf(t))
        /\ ret[t] = ErrStaleRecord
        /\ CurId(t).TagD \in DOMAIN nodes[nsp[t]].events
        /\ CreatedAt(nodes[nsp[t]].events[CurId(t).TagD]) = CreatedAt(RecOf(t))
        /\ Signer(RecOf(t)) = nodes[nsp[t]].lastAnnouncement.pub

\* C8 as claimed: while no announcement of a node has been accepted
\* (lastAnnouncement is the zero value), every record of that node that is
\* not an announcement is rejected with UntrustedSigner.
C8_AnnouncementRequiredFirst ==
    [][\A t \in Goroutines :
          BodyStep(t) /\ ~IsAnnouncement(RecOf(t))
          /\ Pre(t).lastAnnouncement.createdAt = 0
              => Err(t) = ErrUntrustedSigner]_vars

(***************************************************************************)
(* Properties of SpecBatch.                                                *)
(***************************************************************************)
\* the announcement of the batch with the greatest created_at
Newest(S) == CHOOSE x \in S : \A y \in S : CreatedAt(y) <= CreatedAt(x)

\* every announcement of the batch was submitted and every call has run
AllSubmitted ==
    /\ pending = {}
    /\ \A t \in Goroutines : pc[t] \in {"idle", "done"}

\* C5: when every announcement of the batch has been submitted and every
\* call has run, whatever the order and the interleaving, node P is bound
\* to the identity of the announcement with the greatest created_at, and
\* that announcement is the one stored.
C5_NewestAnnouncementWins ==
    AllSubmitted =>
        LET ns == NodeView(records, nodes, NodeP)
        IN  /\ ns.lastAnnouncement =
                   [createdAt |-> CreatedAt(Newest(batch)),
                    pub |-> Signer(Newest(batch))]
            /\ NodeP \in DOMAIN ns.events
            /\ ns.events[NodeP] = Newest(batch)

\* three announcements were submitted; of the two calls that ran last one
\* was accepted and the other, with an announcement by another key than
\* the newest, was rejected as stale
C5_Witness ==
    /\ AllSubmitted
    /\ Cardinality(batch) = 3
    /\ \E t \in Goroutines :
          /\ Ran(t) /\ Ran(Other(t))
          /\ ret[t] = ErrStaleAnnouncement
          /\ ret[Other(t)] = NoError
          /\ Signer(RecOf(t)) # Signer(Newest(batch))

(***************************************************************************)
(* Properties of SpecConc.                                                 *)
(***************************************************************************)
\* the slot of the two overlapping calls holds the record with the higher
\* created_at
SlotHoldsHigher ==
    LET hi == Deref(race.hi)
        id == Deref(GetIdentifier(hi).id)
        ns == NodeView(records, nodes, id.PubKey)
    IN  /\ id.TagD \in DOMAIN ns.events
        /\ ns.events[id.TagD] = hi

\* the statement as the specification words it: whatever the two records
\* are
C7_Original == race.st = "done" => SlotHoldsHigher

\* the call of t has run and its record was rejected as one of another key
\* than the bound one, or as not newer than what the slot or the node holds
RejectedCall(t) ==
    /\ pc[t] = "done"
    /\ ret[t] \in {ErrUntrustedSigner, ErrStaleRecord, ErrStaleAnnouncement}

\* neither call of the two has returned to its caller yet
BothAtReturn == \A t \in Goroutines : pc[t] = "done"

\* C7: when two overlapping StoreEvent calls for the same node and slot
\* with different created_at have both run, and each record was acceptable
\* by itself when the first of the calls got the node lock (its signer
\* trusted, its created_at newer than what the slot holds), the slot holds
\* the record with the higher created_at, whichever call got the lock
\* first; when one of the records was not acceptable by itself, one of the
\* calls returns an error.
C7_HigherCreatedAtWins ==
    race.st = "done" =>
        /\ race.ok => SlotHoldsHigher
        /\ (~race.ok /\ BothAtReturn) =>
              \E t \in Goroutines : RejectedCall(t)

\* both calls have run and the one with the higher created_at ran first
C7_Witness ==
    /\ race.st = "done"
    /\ race.ok
    /\ ret[race.second] = ErrStaleRecord
    /\ ret[Other(race.second)] = NoError
    /\ pc = [t \in Goroutines |-> "done"]

(***************************************************************************)
(* Properties of Verify (specification SpecVerify).                        *)
(***************************************************************************)
\* check number i of VerifyOrder can be asked of event e: the network, kind
\* tag and Lightning signature checks are about the parsed identifier, and
\* the Lightning signature check is about events that require it
Applicable(i, e) ==
    /\ i >= 5 => GetIdentifier(e).err = NoError
    /\ i = 8 => RequiresLnSignature(e)

\* the checks event e fails, each asked on its own
FailingChecks(e) ==
    {i \in 1..Len(VerifyOrder) :
        Applicable(i, e) /\ ~checkOutcome(VerifyOrder[i], e, VerifyNow).ok}

Earliest(S) == CHOOSE i \in S : \A j \in S : i <= j

\* C9: when Verify has returned, the checks it evaluated are those of the
\* fixed order up to and including the earliest check the event fails, and
\* what it returned is the outcome of that check; for an event failing no
\* check it evaluated every applicable check and returned true.
C9_FirstFailingCheckReported ==
    vpc = "done" =>
        LET e == Deref(vev)
            F == FailingChecks(e)
        IN  IF F = {}
            THEN /\ vres.valid
                 /\ vtrace = SubSeq(VerifyOrder, 1,
                                    IF RequiresLnSignature(e) THEN 8 ELSE 7)
            ELSE /\ ~vres.valid
                 /\ vres.err =
                        checkOutcome(VerifyOrder[Earliest(F)], e, VerifyNow).err
                 /\ vtrace = SubSeq(VerifyOrder, 1, Earliest(F))

\* a record failing the ID, the size and the Lightning signature check was
\* rejected for its ID after two checks
C9_Witness ==
    /\ vpc = "done"
    /\ {2, 3, 8} \subseteq FailingChecks(Deref(vev))
    /\ 1 \notin FailingChecks(Deref(vev))
    /\ vres = [valid |-> FALSE, err |-> ErrIDMismatch]
    /\ vtrace = <<"timestamp", "id">>

\* C10: when Verify has returned, it returned true only for an event that
\* fails no check, and false only together with an error.
C10_FailureCarriesError ==
    vpc = "done" =>
        /\ vres.valid => FailingChecks(Deref(vev)) = {}
        /\ ~vres.valid => vres.err # NoError

\* the event's 'd' tag has the form <kind>:<pubkey>:<network>[:opts] of a
\* logical kind other than the one its 'k' tag names
KindsDisagree(e) ==
    LET tagD == Find(e.NostrEvent.Tags, TagD)
        tagK == Find(e.NostrEvent.Tags, TagK)
    IN  /\ tagD # Nil
        /\ tagK # Nil
        /\ Len(Split(Deref(tagD)[2])) >= 3
        /\ Atoi(Split(Deref(tagD)[2])[1]).ok
        /\ Atoi(Deref(tagK)[2]).ok
        /\ Atoi(Split(Deref(tagD)[2])[1]).val # Atoi(Deref(tagK)[2]).val

\* C11: when Verify has returned for an event whose 'd' tag was built for
\* one logical kind and whose 'k' tag names another, and which fails none
\* of the other checks, it returned false with the kind tag error.
C11_KindMismatchRejected ==
    (/\ vpc = "done"
     /\ KindsDisagree(Deref(vev))
     /\ FailingChecks(Deref(vev)) \subseteq {6})
        => vres = [valid |-> FALSE, err |-> ErrKindTag]

\* what a Lightning signature of a record has to cover: the record's
\* PubKey, CreatedAt, Kind, Content and every tag but the 'sig' tags
SignedFields(ne) ==
    [PubKey |-> ne.PubKey, CreatedAt |-> ne.CreatedAt, Kind |-> ne.Kind,
     Tags |-> SelectSeq(ne.Tags, LAMBDA t : Len(t) = 0 \/ t[1] # TagSig),
     Content |-> ne.Content]

IsTrustAnchor(e) ==
    /\ GetIdentifier(e).err = NoError
    /\ Deref(GetIdentifier(e).id).Kind = KindNodeAnnouncement

\* the only 'sig' tag of the record is the signature of the Lightning key
\* ln over the fields of the nostr event ne
SigTagSigns(e, ln, ne) ==
    FindAll(e.NostrEvent.Tags, TagSig) =
        <<<<TagSig, <<"zbase32">> \o ln \o <<ToString(SignedFields(ne))>>>>>>

\* C12: when Verify has returned true for a Node Announcement, the record
\* has one 'sig' tag, and it is the signature by the Lightning key named in
\* the 'd' tag over this record's own PubKey, CreatedAt, Kind, Content and
\* tags without 'sig'; a record carrying the signature made for the same
\* record under another PubKey is not valid.
C12_LnSignatureBinding ==
    (vpc = "done" /\ IsTrustAnchor(Deref(vev))) =>
        LET e  == Deref(vev)
            ln == Deref(GetIdentifier(e).id).PubKey
        IN  /\ vres.valid => SigTagSigns(e, ln, e.NostrEvent)
            /\ SigTagSigns(e, ln, [e.NostrEvent EXCEPT !.PubKey = KeyB])
                   /\ e.NostrEvent.PubKey # KeyB
                => ~vres.valid

\* a Node Announcement of key A with a correct ID and nostr signature that
\* carries the Lightning signature made for key B was rejected by the
\* Lightning signature check
C12_Witness ==
    /\ vpc = "done"
    /\ IsTrustAnchor(Deref(vev))
    /\ Deref(vev).NostrEvent.PubKey = KeyA
    /\ SigTagSigns(Deref(vev), NodeP,
                   [Deref(vev).NostrEvent EXCEPT !.PubKey = KeyB])
    /\ vtrace = VerifyOrder
    /\ vres = [valid |-> FALSE, err |-> ErrKeyMismatch]

\* the number of 'sig' tags with a value the record carries
SigTagCount(e) ==
    Cardinality({i \in 1..Len(e.NostrEvent.Tags) :
                    /\ Len(e.NostrEvent.Tags[i]) >= 2
                    /\ e.NostrEvent.Tags[i][1] = TagSig})

\* the number of tags named 'sig' the record carries, with a value or not
NamedSigTagCount(e) ==
    Cardinality({i \in 1..Len(e.NostrEvent.Tags) :
                    /\ Len(e.NostrEvent.Tags[i]) >= 1
                    /\ e.NostrEvent.Tags[i][1] = TagSig})

SigCountErrors == {ErrNoSig, ErrManySigs}

\* the statement as the specification words it: every tag named 'sig'
\* counts, and the error is a signature-count error
C13_Original ==
    (/\ vpc = "done"
     /\ IsTrustAnchor(Deref(vev))
     /\ NamedSigTagCount(Deref(vev)) # 1)
        => ~vres.valid /\ vres.err \in SigCountErrors

\* Verify passed the checks before the Lightning signature check
ReachedLnSigCheck == FailingChecks(Deref(vev)) \cap 1..7 = {}

\* C13: when Verify has returned for a Node Announcement that carries no
\* 'sig' tag with a value, or more than one, it has returned false: with
\* the error for no signature, or for several signatures, when the record
\* passes the checks before the Lightning signature check, and with what
\* the first failing of those checks yields otherwise.  A tag named 'sig'
\* without a value is not counted: with it alone the error is the one for
\* no signature, and beside one 'sig' tag with a value the record is
\* verified as without it.
C13_SignatureArity ==
    (vpc = "done" /\ IsTrustAnchor(Deref(vev))) =>
        /\ SigTagCount(Deref(vev)) # 1 => ~vres.valid
        /\ (SigTagCount(Deref(vev)) = 0 /\ ReachedLnSigCheck)
              => vres = [valid |-> FALSE, err |-> ErrNoSig]
        /\ (SigTagCount(Deref(vev)) > 1 /\ ReachedLnSigCheck)
              => vres = [valid |-> FALSE, err |-> ErrManySigs]
        /\ (SigTagCount(Deref(vev)) # 1 /\ ~ReachedLnSigCheck)
              => /\ vres.err \notin SigCountErrors
                 /\ Len(vtrace) = Earliest(FailingChecks(Deref(vev)))
        /\ (/\ SigTagCount(Deref(vev)) = 1
            /\ NamedSigTagCount(Deref(vev)) > 1
            /\ ReachedLnSigCheck
            /\ SigTagSigns(Deref(vev), NodeP, Deref(vev).NostrEvent))
              => vres = [valid |-> TRUE, err |-> NoError]

\* a Node Announcement carrying twice the Lightning signature that is valid
\* for it was rejected for carrying several signatures
C13_Witness ==
    /\ vpc = "done"
    /\ IsTrustAnchor(Deref(vev))
    /\ SigTagCount(Deref(vev)) = 2
    /\ \A i \in 3..4 :
          Deref(vev).NostrEvent.Tags[i] =
              <<TagSig, LnSignMessage(NodeP, Hash(Deref(vev)))>>
    /\ vtrace = VerifyOrder
    /\ vres = [valid |-> FALSE, err |-> ErrManySigs]

\* a Node Announcement that carries a 'sig' tag without a value beside the
\* Lightning signature that is valid for it was accepted
C13_ValuelessWitness ==
    /\ vpc = "done"
    /\ IsTrustAnchor(Deref(vev))
    /\ NamedSigTagCount(Deref(vev)) = 2
    /\ SigTagCount(Deref(vev)) = 1
    /\ vres = [valid |-> TRUE, err |-> NoError]

\* the record the ID of event e was computed for, with e's ID and Sig; the
\* hash being the serialized record, the ID tells which record that was
SignedRecord(e) ==
    LET h == Deref(e.NostrEvent.ID)
    IN  [e EXCEPT !.NostrEvent =
            [PubKey |-> h.PubKey, CreatedAt |-> h.CreatedAt, Kind |-> h.Kind,
             Tags |-> h.Tags, Content |-> h.Content,
             ID |-> e.NostrEvent.ID, Sig |-> e.NostrEvent.Sig],
                  !.id = Nil]

\* event e is a validly signed record whose content or tags were changed
\* afterwards, its ID and signatures left as they were
Tampered(e) ==
    /\ e.NostrEvent.ID # Nil
    /\ Verify(SignedRecord(e), VerifyNow).valid
    /\ e.NostrEvent.PubKey = SignedRecord(e).NostrEvent.PubKey
    /\ e.NostrEvent.CreatedAt = SignedRecord(e).NostrEvent.CreatedAt
    /\ e.NostrEvent.Kind = SignedRecord(e).NostrEvent.Kind
    /\ \/ e.NostrEvent.Content # SignedRecord(e).NostrEvent.Content
       \/ e.NostrEvent.Tags # SignedRecord(e).NostrEvent.Tags

\* C14: when Verify has returned for a validly signed record whose content
\* or tags were changed without recomputing the ID, it returned false with
\* the ID mismatch error, having evaluated the timestamp and the ID check
\* only (no signature check).
C14_TamperDetection ==
    (vpc = "done" /\ Tampered(Deref(vev))) =>
        /\ vres = [valid |-> FALSE, err |-> ErrIDMismatch]
        /\ vtrace = <<"timestamp", "id">>

\* a valid Node Announcement that was given one more tag was rejected for
\* its ID
C14_Witness ==
    /\ vpc = "done"
    /\ Tampered(Deref(vev))
    /\ SignedRecord(Deref(vev)).NostrEvent.Tags
          = AnnouncementTags(NodeP) \o
                <<LnSigTag(NodeP, SignedRecord(Deref(vev)).NostrEvent)>>
    /\ Deref(vev).NostrEvent.Tags
          = Append(SignedRecord(Deref(vev)).NostrEvent.Tags,
                   <<Str("t"), Str("x")>>)
    /\ vres = [valid |-> FALSE, err |-> ErrIDMismatch]

(***************************************************************************)
(* Properties of Finalize and SignEvent (specification SpecPublish).       *)
(***************************************************************************)
\* the calls made so far are Finalize, SignEvent and Verify in this order,
\* and Finalize and SignEvent returned nil
FinalizedSignedVerified ==
    /\ Len(pops) = 3
    /\ pops[1] = Returned("Finalize", NoError, FALSE)
    /\ pops[2] = Returned("SignEvent", NoError, FALSE)
    /\ pops[3].op = "Verify"

\* content within 1 MiB, a recognized network for kinds other than the Node
\* Announcement, and the Lightning signer holding the key given to Finalize
WellFormedPayload ==
    /\ Deref(pev).NostrEvent.Content.len <= MaxContentSize
    /\ Deref(pin).kind # KindNodeAnnouncement
          => IsValidNetwork(Deref(pin).network)
    /\ Deref(pin).pubkey = LnSignerKey

\* C15 as stated: when Finalize, SignEvent and Verify were called in this
\* order on a well-formed payload and the first two returned nil, Verify
\* returned true.
C15_Original ==
    (FinalizedSignedVerified /\ WellFormedPayload) => pops[3].valid

\* the event is not dated after the grace period, and a Node Announcement
\* was created with the PubKey of the nostr signer (the Lightning signature
\* covers the PubKey the event has when SignEvent is called)
WellFormedEvent ==
    /\ Deref(pev).NostrEvent.CreatedAt <= VerifyNow + EventGracePeriodSeconds
    /\ Deref(pin).kind = KindNodeAnnouncement
          => Deref(pin).pub = NostrSignerKey

\* C15: when Finalize, SignEvent and Verify were called in this order on a
\* well-formed payload in a well-formed event and the first two returned
\* nil, Verify returned true.
C15_FinalizeSignVerify ==
    (FinalizedSignedVerified /\ WellFormedPayload /\ WellFormedEvent)
        => pops[3].valid

\* a Node Announcement was finalized, signed and found valid
C15_Witness ==
    /\ FinalizedSignedVerified
    /\ WellFormedPayload
    /\ WellFormedEvent
    /\ Deref(pin).kind = KindNodeAnnouncement
    /\ pcalls = <<"ln", "nostr">>
    /\ pops[3] = Returned("Verify", NoError, TRUE)

\* SignEvent was the last call and has returned
SignEventReturned ==
    /\ ppc = "idle"
    /\ Len(pops) > 0
    /\ pops[Len(pops)].op = "SignEvent"

\* the ID and the nostr signature are those of the event as it is now
IdentityCoversEvent(ne) ==
    /\ ne.ID = Ptr([SignedFields(ne) EXCEPT !.Tags = ne.Tags])
    /\ ne.Sig # Nil
    /\ Deref(ne.Sig).msg = [SignedFields(ne) EXCEPT !.Tags = ne.Tags]

\* SignEvent has returned for a finalized Node Announcement
SignedAnchor ==
    /\ SignEventReturned
    /\ Deref(pev).finalized
    /\ Deref(pev).kind = KindNodeAnnouncement

\* the number of 'sig' tags the returned call of SignEvent has appended
SigTagsAppended ==
    IF \E i \in 1..Len(pcalls) : pcalls[i] = "ln"
       /\ pops[Len(pops)].err # ErrLnSigner
    THEN 1 ELSE 0

\* the event carried a tag named 'sig', or one with a value, when the
\* returned call of SignEvent began
CarriedNamedSigTag == NamedSigTagCount(Deref(pev)) > SigTagsAppended
CarriedSigTag == SigTagCount(Deref(pev)) > SigTagsAppended

\* the unfinalized event and the order of the signers
SignersInOrder ==
    LET e == Deref(pev)
        anchor == e.finalized /\ e.kind = KindNodeAnnouncement
        err == pops[Len(pops)].err
    IN  /\ (SignEventReturned /\ ~e.finalized)
              => err = ErrNotFinalized /\ pcalls = <<>>
        /\ (anchor /\ \E i \in 1..Len(pcalls) : pcalls[i] = "nostr")
              => /\ pcalls = <<"ln", "nostr">>
                 /\ SigTagCount(e) >= 1
        /\ (SignedAnchor /\ err = NoError)
              => /\ pcalls = <<"ln", "nostr">>
                 /\ SigTagCount(e) = 1
                 /\ e.NostrEvent.Tags[Len(e.NostrEvent.Tags)][1] = TagSig
                 /\ IdentityCoversEvent(e.NostrEvent)

\* the statement as the specification words it: every tag named 'sig'
\* makes SignEvent fail
C16_Original ==
    /\ SignersInOrder
    /\ (SignedAnchor /\ CarriedNamedSigTag)
          => pops[Len(pops)].err = ErrDuplicateSig /\ pcalls = <<>>

\* C16: SignEvent on an unfinalized event returns the not-finalized error
\* and invokes no signer.  For a finalized Node Announcement the nostr
\* signer is invoked only after the Lightning signer, with the 'sig' tag in
\* the event; when SignEvent returns nil both were invoked in this order,
\* the event carries one 'sig' tag with a value, the last of its tags, and
\* its ID and nostr signature cover the tags with the 'sig' tag.  A Node
\* Announcement that carried a 'sig' tag with a value returns the duplicate
\* error with no signer invoked, and this is the only failure without a
\* signer invoked; one that carried only a tag named 'sig' without a value
\* is signed as one without: the Lightning signer is invoked and a second
\* tag named 'sig' appended.
C16_SignEventOrdering ==
    LET err == pops[Len(pops)].err
    IN  /\ SignersInOrder
        /\ (SignedAnchor /\ CarriedSigTag)
              => err = ErrDuplicateSig /\ pcalls = <<>>
        /\ (SignedAnchor /\ pcalls = <<>>)
              => err = ErrDuplicateSig /\ CarriedSigTag
        /\ (SignedAnchor /\ ~CarriedSigTag)
              => /\ pcalls # <<>> /\ pcalls[1] = "ln"
                 /\ err # ErrDuplicateSig
                 /\ SigTagCount(Deref(pev)) = SigTagsAppended
        /\ (SignedAnchor /\ CarriedNamedSigTag /\ ~CarriedSigTag
               /\ err # ErrLnSigner)
              => NamedSigTagCount(Deref(pev)) >= 2

\* SignEvent returned nil for a Node Announcement: the Lightning signer, then
\* the nostr signer, and the ID is that of the event with its 'sig' tag
C16_Witness ==
    /\ SignEventReturned
    /\ pops[Len(pops)].err = NoError
    /\ Deref(pev).kind = KindNodeAnnouncement
    /\ pcalls = <<"ln", "nostr">>
    /\ Deref(pev).NostrEvent.Tags[3][1] = TagSig
    /\ Deref(Deref(pev).NostrEvent.ID).Tags = Deref(pev).NostrEvent.Tags

\* SignEvent returned nil for a Node Announcement that carried a tag named
\* 'sig' without a value: both signers were invoked and the event carries
\* two tags named 'sig'
C16_ValuelessWitness ==
    /\ SignedAnchor
    /\ pops[Len(pops)].err = NoError
    /\ pcalls = <<"ln", "nostr">>
    /\ Deref(pev).NostrEvent.Tags[1] = <<TagSig>>
    /\ NamedSigTagCount(Deref(pev)) = 2

\* Finalize was the only call and returned nil
OnlyFinalized == pops = <<Returned("Finalize", NoError, FALSE)>>

\* the identifier GetIdentifier yields is the one given to Finalize
RoundTrip ==
    LET a == Deref(pin)
        r == GetIdentifier(Deref(pev))
    IN  /\ r.err = NoError
        /\ Deref(r.id).Kind = a.kind
        /\ IF a.kind = KindNodeAnnouncement
           THEN /\ Deref(r.id).TagD = a.pubkey
                /\ Deref(r.id).PubKey = a.pubkey
                /\ Deref(r.id).Network = EmptyStr
                /\ Deref(r.id).Opts = <<>>
           ELSE /\ Deref(r.id).PubKey = a.pubkey
                /\ Deref(r.id).Network = a.network
                /\ Deref(r.id).Opts = a.opts

\* C18 as stated: after Finalize returned nil, GetIdentifier yields for a
\* Node Announcement the TagD and PubKey given to Finalize as pubkey, with
\* empty network and opts, and for another kind the pubkey, network and
\* opts given to Finalize.
C18_Original == OnlyFinalized => RoundTrip

HasColon(str) == \E i \in 1..Len(str) : str[i] = Colon

\* for a kind other than the Node Announcement, no ':' in the pubkey, the
\* network and the opts given to Finalize
ColonFree ==
    Deref(pin).kind # KindNodeAnnouncement =>
        /\ ~HasColon(Deref(pin).pubkey)
        /\ ~HasColon(Deref(pin).network)
        /\ \A i \in 1..Len(Deref(pin).opts) : ~HasColon(Deref(pin).opts[i])

\* C18: the same, for arguments of Finalize that contain no ':' when the
\* kind is not the Node Announcement.
C18_IdentifierRoundTrip == (OnlyFinalized /\ ColonFree) => RoundTrip

\* a Node Info was finalized with one opt, and its identifier parsed back
C18_Witness ==
    /\ OnlyFinalized
    /\ Deref(pin).kind = KindNodeInfo
    /\ Deref(pin).opts = <<OptX>>
    /\ Deref(GetIdentifier(Deref(pev)).id).Opts = <<OptX>>
    /\ Deref(GetIdentifier(Deref(pev)).id).PubKey = Deref(pin).pubkey

(***************************************************************************)
(* Properties of GetIdentifier (specification SpecVerify: Verify calls it  *)
(* on the events that were not built by NewEventFromNostrRelay).           *)
(***************************************************************************)
MalformedTagErrors ==
    {ErrMissingTagD, ErrMissingTagK, ErrInvalidKind, ErrInvalidTagDFormat}

\* the tags of the record named key that have a value, in order
Valued(e, key) ==
    SelectSeq(e.NostrEvent.Tags, LAMBDA t : Len(t) >= 2 /\ t[1] = key)

\* the value of the tag is a decimal integer with an optional sign
IsInteger(s) ==
    LET body == IF Len(s) > 0 /\ s[1] \in {"+", "-"} THEN Tail(s) ELSE s
    IN  Len(body) > 0 /\ \A i \in 1..Len(body) : body[i] \in
            {"0", "1", "2", "3", "4", "5", "6", "7", "8", "9"}

\* the number of colon-separated parts of s
Parts(s) == 1 + Cardinality({i \in 1..Len(s) : s[i] = Colon})

\* no 'd' tag or no 'k' tag with a value, a 'k' value that is no integer,
\* or fewer than 3 parts in the 'd' tag of a kind other than the Node
\* Announcement; of several 'd' or 'k' tags the first counts
MalformedTags(e) ==
    \/ Len(Valued(e, TagD)) = 0
    \/ Len(Valued(e, TagK)) = 0
    \/ ~IsInteger(Valued(e, TagK)[1][2])
    \/ /\ Atoi(Valued(e, TagK)[1][2]).val # KindNodeAnnouncement
       /\ Parts(Valued(e, TagD)[1][2]) < 3

\* Verify has called GetIdentifier on an event without cached identifier
IdentifierParsed ==
    /\ vpc = "done"
    /\ ~Deref(vev).finalized
    /\ Len(vtrace) >= 4

\* C17 as stated: when GetIdentifier has run on a record with malformed
\* tags, or with more than one 'd' tag or more than one 'k' tag, it returned
\* one of the malformed tag errors.
C17_Original ==
    (/\ IdentifierParsed
     /\ \/ MalformedTags(Deref(vev))
        \/ Len(Valued(Deref(vev), TagD)) > 1
        \/ Len(Valued(Deref(vev), TagK)) > 1)
        => vres.err \in MalformedTagErrors /\ Len(vtrace) = 4

\* C17: when GetIdentifier has run on a record, it returned one of the
\* malformed tag errors if the tags are malformed, and otherwise the
\* identifier of the first 'd' tag and the first 'k' tag that have a value.
C17_MalformedTagRejected ==
    IdentifierParsed =>
        IF MalformedTags(Deref(vev))
        THEN /\ vres.err \in MalformedTagErrors
             /\ Len(vtrace) = 4
             /\ Deref(vev).id = Nil
        ELSE /\ Deref(vev).id # Nil
             /\ Deref(Deref(vev).id).TagD = Valued(Deref(vev), TagD)[1][2]
             /\ Deref(Deref(vev).id).Kind
                   = Atoi(Valued(Deref(vev), TagK)[1][2]).val

\* GetIdentifier has run on a record with two 'd' tags and took the first
C17_Witness ==
    /\ IdentifierParsed
    /\ Len(Valued(Deref(vev), TagD)) = 2
    /\ Valued(Deref(vev), TagD)[1][2] # Valued(Deref(vev), TagD)[2][2]
    /\ Deref(vev).id # Nil
    /\ Deref(Deref(vev).id).PubKey = Valued(Deref(vev), TagD)[1][2]

(***************************************************************************)
(* Properties of Client.GetEvents (specification SpecSync).                *)
(***************************************************************************)
\* pass n was run: syncStoreWithPool fetched for it
PassRun(n) == sgot[n] # Nil
Fetched(n) == IF PassRun(n) THEN Deref(sgot[n]) ELSE {}

\* the entries of the log written in pass n
LogOf(n) == {i \in DOMAIN slog : slog[i].pass = n}

SyncOutcomes == {"parse", "verify", "store", "stored"}

\* the first pass is the trust-anchor pass, the second the pass of the
\* requested kind, and a record is processed in the pass that fetched it
PassesFetchTheirKind ==
    /\ \A ne \in Fetched(1) : MatchesFilter(Rec(ne), KindNodeAnnouncement)
    /\ \A ne \in Fetched(2) : MatchesFilter(Rec(ne), Deref(sarg).kind)
    /\ \A i \in DOMAIN slog : slog[i].ne \in Fetched(slog[i].pass)

\* once the second pass has started, every record of the first pass was
\* parsed, verified and stored or rejected, and no record of the first pass
\* is processed after one of the second
AnchorsResolvedFirst ==
    /\ PassRun(2) =>
          /\ PassRun(1)
          /\ \A ne \in Fetched(1) :
                \E i \in LogOf(1) : /\ slog[i].ne = ne
                                    /\ slog[i].outcome \in SyncOutcomes
    /\ \A i \in LogOf(1), j \in LogOf(2) : i < j

SyncDone == spc.at = "done"

\* the statement as the specification words it: the second pass is run
\* exactly when the requested kind is not the trust-anchor kind
C19_Original ==
    /\ PassesFetchTheirKind
    /\ AnchorsResolvedFirst
    /\ SyncDone =>
          /\ PassRun(1)
          /\ PassRun(2) <=> Deref(sarg).kind # KindNodeAnnouncement

\* C19: GetEvents always runs the trust-anchor pass first, and every record
\* that pass yields is parsed, verified and stored or rejected before the
\* first record of the requested-kind pass is processed; the second pass is
\* run exactly when the requested kind is not the trust-anchor kind and the
\* first pass did not end with a fatal error
C19_PassOrdering ==
    /\ PassesFetchTheirKind
    /\ AnchorsResolvedFirst
    /\ SyncDone =>
          /\ PassRun(1)
          /\ PassRun(2) <=> (/\ Deref(sarg).kind # KindNodeAnnouncement
                             /\ Deref(sret).err # ErrFetchAnnouncements)

\* a call for Node Infos has returned after two passes that both processed
\* records
C19_Witness ==
    /\ SyncDone
    /\ Deref(sarg).kind = KindNodeInfo
    /\ Deref(sret).err = NoError
    /\ Cardinality(LogOf(1)) >= 2
    /\ Cardinality(LogOf(2)) >= 2

\* the Event and the Identifier of a named record that parses
EventOf(ne) == Deref(NewEventFromNostrRelay(Rec(ne)).e)
IdOf(ne) == Deref(GetIdentifier(EventOf(ne)).id)

ParseFails(ne) == NewEventFromNostrRelay(Rec(ne)).err # NoError
VerifyFails(ne) ==
    LET v == Verify(EventOf(ne), VerifyNow)
    IN  ~v.valid \/ v.err # NoError

\* the log entries of the records that were stored, and of the others
Accepted == {i \in DOMAIN slog : slog[i].outcome = "stored"}
Rejected == DOMAIN slog \ Accepted

\* the length of fetchErrors so far, over both passes
Warnings ==
    IF spc.at \in {"range", "store", "after"} THEN swarn.total + swarn.local
    ELSE swarn.total

\* a record that fails parsing or Verify is rejected at that step, and the
\* record processed last, when not rejected, is in its slot of the store
\* until StoreEvent is called for the next one
EachRecordSettled ==
    /\ \A i \in DOMAIN slog :
          /\ ParseFails(slog[i].ne) <=> slog[i].outcome = "parse"
          /\ (~ParseFails(slog[i].ne) /\ VerifyFails(slog[i].ne))
                <=> slog[i].outcome = "verify"
    /\ (slog # <<>> /\ Len(slog) \in Accepted /\ sne = Nil) =>
          LET ne == slog[Len(slog)].ne
              ns == NodeView(records, nodes, IdOf(ne).PubKey)
          IN  /\ IdOf(ne).TagD \in DOMAIN ns.events
              /\ ns.events[IdOf(ne).TagD].NostrEvent = Rec(ne)

\* no failure stops a pass: a pass that ended has processed, once, every
\* record it fetched
PassesComplete ==
    \A n \in {1, 2} :
        (PassRun(n) /\ (spc.pass > n \/ spc.at \in {"after", "read", "done"})) =>
            /\ {slog[i].ne : i \in LogOf(n)} = Fetched(n)
            /\ Cardinality(LogOf(n)) = Cardinality(Fetched(n))

\* the signer of the last announcement of node p accepted before entry j
BoundBefore(j, p) ==
    LET prev == {k \in Accepted : /\ k < j
                                  /\ IdOf(slog[k].ne).Kind = KindNodeAnnouncement
                                  /\ IdOf(slog[k].ne).PubKey = p}
    IN  IF prev = {} THEN EmptyStr
        ELSE Rec(slog[CHOOSE k \in prev : \A l \in prev : l <= k].ne).PubKey

\* a later accepted record took the slot of entry i, or was an announcement
\* of its node by another signer
Superseded(i) ==
    \E j \in Accepted :
        /\ j > i
        /\ IdOf(slog[j].ne).PubKey = IdOf(slog[i].ne).PubKey
        /\ \/ IdOf(slog[j].ne).TagD = IdOf(slog[i].ne).TagD
           \/ /\ IdOf(slog[j].ne).Kind = KindNodeAnnouncement
              /\ Rec(slog[j].ne).PubKey # BoundBefore(j, IdOf(slog[j].ne).PubKey)

\* the accepted records the call was asked for
Requested(i) ==
    /\ i \in Accepted
    /\ IdOf(slog[i].ne).Kind = Deref(sarg).kind
    /\ newInFilter(Deref(sarg).pubkeys, IdOf(slog[i].ne).PubKey)

\* the records of the slice the call returned, and the slice holds each once
Returns ==
    {Deref(sret).events[i].NostrEvent : i \in DOMAIN Deref(sret).events}
ReturnsOnce == Len(Deref(sret).events) = Cardinality(Returns)

PartialSuccess ==
    /\ EachRecordSettled
    /\ PassesComplete
    /\ Warnings = Cardinality(Rejected)
    /\ SyncDone =>
          /\ Deref(sret).err = NoError
          /\ Deref(sret).warnings = Cardinality(Rejected)
          /\ ReturnsOnce

\* the statement as the specification words it: every accepted record is
\* returned
C20_Original ==
    ~scancel =>
        /\ PartialSuccess
        /\ SyncDone =>
              Returns = {Rec(slog[i].ne) : i \in {j \in Accepted : Requested(j)}}

\* C20: without cancellation, each fetched record that fails parsing,
\* Verify or StoreEvent adds exactly one warning and never stops the pass;
\* every other record is stored; the call returns no fatal error, the
\* number of warnings equals the number of rejected records over both
\* passes, and the records returned are the accepted records of the
\* requested kind and pubkey filter that no record accepted later in the
\* call has replaced or purged
C20_PartialSuccess ==
    ~scancel =>
        /\ PartialSuccess
        /\ SyncDone =>
              Returns = {Rec(slog[i].ne) :
                            i \in {j \in Accepted :
                                      Requested(j) /\ ~Superseded(j)}}

\* a call has returned without cancellation after rejecting one record at
\* each of the three steps, storing others and returning some
C20_Witness ==
    /\ SyncDone
    /\ ~scancel
    /\ {"parse", "verify", "store", "stored"}
          \subseteq {slog[i].outcome : i \in DOMAIN slog}
    /\ Deref(sret).warnings >= 3
    /\ Returns # {}
    /\ \E i \in Accepted : Superseded(i)

\* the running call has seen, or is about to see, that ctx is cancelled:
\* every test of ctx.Err() from here on finds the error
CancellationObserved == scancel /\ spc.at \in {"range", "after"}

CancellationErrors == {ErrFetchAnnouncements, ErrFetchKind}

\* Range's function is called for a record in this step, and a record is
\* logged in it
RecordTaken == spc.at = "range" /\ sleft' # sleft
RecordLogged == slog' # slog

\* C21: the cancellation signal is tested once per received record before
\* the record is processed: a record is only taken into processing while
\* ctx is not cancelled, and a record logged under a cancelled ctx is the
\* one that was in StoreEvent when ctx was cancelled; once the cancellation
\* is observed no further record is parsed, verified or stored, no further
\* warning is appended, and the call returns the cancellation error as a
\* fatal error with no result
C21_Cancellation ==
    [][/\ RecordTaken => ~scancel
       /\ RecordLogged => ~scancel \/ spc.at = "store"
       /\ CancellationObserved =>
             /\ slog' = slog
             /\ sleft' = sleft
             /\ sne' = sne
             /\ records' = records
             /\ nodes' = nodes
             /\ swarn' = swarn
             /\ pc' = pc
             /\ spc'.at \in {"after", "done"}
             /\ spc'.at = "done" =>
                   /\ Deref(sret').err \in CancellationErrors
                   /\ Deref(sret').events = <<>>
                   /\ Deref(sret').warnings = 0]_vars

\* a call was cancelled in its second pass after it had stored records and
\* appended a warning, with records left unvisited, and has returned
C21_Witness ==
    /\ SyncDone
    /\ scancel
    /\ spc.pass = 2
    /\ sleft # {}
    /\ Accepted # {}
    /\ Rejected # {}
    /\ Deref(sret).err = ErrFetchKind

(***************************************************************************)
(* Properties of Client.Publish (specification SpecClientPublish).         *)
(***************************************************************************)
\* the steps of the call that returned without failure, in their order
Succeeded == [i \in DOMAIN clog |-> clog[i].step]
AnyStepFailed == \E i \in DOMAIN clog : clog[i].failed

PublishDone == cpc = "done"

\* C22: Publish hands a record to the transport at most once per call, and
\* only after Marshal, Finalize, SignEvent and Verify of the signed record
\* have succeeded in that order; the record handed over is the one Verify
\* accepted.  If one of those steps fails, Publish returns an error and
\* nothing is handed to the transport.
C22_PublishOnlyVerified ==
    /\ Len(csent) <= 1
    /\ csent # <<>> =>
          /\ ~AnyStepFailed
          /\ SubSeq(Succeeded, 1, 4) =
                <<"Marshal", "Finalize", "SignEvent", "Verify">>
          /\ csent[1] = Deref(cev).NostrEvent
          /\ Verify(Deref(cev), VerifyNow).valid
          /\ Verify(Deref(cev), VerifyNow).err = NoError
    /\ AnyStepFailed =>
          /\ csent = <<>>
          /\ PublishDone
          /\ clog[Len(clog)].failed
          /\ Deref(cret) # NoError
    /\ (PublishDone /\ Deref(cret) = NoError) => Len(csent) = 1

\* the signers returned without error for a Node Announcement, the fresh
\* Verify rejected the signed record, and Publish returned its error
C22_Witness ==
    /\ PublishDone
    /\ Deref(cin).kind = KindNodeAnnouncement
    /\ Len(clog) = 4
    /\ clog[4].step = "Verify"
    /\ clog[4].failed
    /\ Deref(cret) = ErrVerifying
    /\ csent = <<>>

(***************************************************************************)
(* Properties of concurrent StoreEvent and GetEvents calls (specification  *)
(* SpecConcRead).                                                          *)
(***************************************************************************)
HoldsStore(t) == smu.writer = t \/ t \in smu.readers
HoldsNodeLock(t, i) == nmu[i].writer = t \/ t \in nmu[i].readers
HoldsNode(t) == \E i \in DOMAIN nmu : HoldsNodeLock(t, i)

\* t is about to call Lock or RLock of the store-wide mutex, or of a node's
WaitsStore(t) == pc[t] \in {"RLock", "Lock", "gRLock"}
WaitsNode(t) == pc[t] \in {"nsLock", "gNodeRLock"}

\* t validates, writes or reads the slots of a node
AtSlots(t) == pc[t] \in {"locked", "writing", "gNodeRead"}

\* the steps of t inside a call
GoroutineStep(t) ==
    \/ StoreRLock(t)
    \/ StoreRead(t)
    \/ StoreLock(t)
    \/ StoreCreate(t)
    \/ NodeLock(t)
    \/ NodeCheck(t)
    \/ NodeCommit(t)
    \/ Return(t)
    \/ GetRLock(t)
    \/ GetSnapshot(t)
    \/ GetNodeRLock(t)
    \/ GetNodeRead(t)
    \/ GetReturn(t)

LockDiscipline ==
    \A t \in Goroutines :
        /\ HoldsNode(t) => ~WaitsStore(t) /\ ~HoldsStore(t)
        /\ HoldsStore(t) => ~WaitsNode(t) /\ ~HoldsNode(t)
        /\ AtSlots(t) => ~HoldsStore(t) /\ HoldsNodeLock(t, nsp[t])

\* a StoreEvent that waits for the lock of its node waits for the node of
\* its record's pubkey, and goes on unless that very lock is held
OnlyOwnNodeBlocks ==
    \A t \in Goroutines :
        pc[t] = "nsLock" =>
            /\ nsp[t] = records[CurId(t).PubKey]
            /\ nmu[nsp[t]] = Unlocked => ENABLED NodeLock(t)

\* a goroutine that holds a lock can always take its next step, and a
\* goroutine in a call can take a step or waits for a lock that another
\* goroutine holds: whatever order the mutexes serve their waiters in, no
\* set of goroutines waits for each other
NoDeadlock ==
    \A t \in Goroutines :
        /\ (HoldsStore(t) \/ HoldsNode(t)) => ENABLED GoroutineStep(t)
        /\ pc[t] # "idle" =>
              \/ ENABLED GoroutineStep(t)
              \/ \E u \in Goroutines \ {t} :
                    /\ HoldsStore(u) \/ HoldsNode(u)
                    /\ ENABLED GoroutineStep(u)

\* C23: neither StoreEvent nor GetEvents acquires or waits for the
\* store-wide lock while it holds a node lock; the store-wide lock is
\* released before a node lock is acquired and is not held while slot data
\* is validated, written or read; a StoreEvent on node P is not blocked by
\* the lock of another node Q; and no interleaving of StoreEvent and
\* GetEvents calls deadlocks
C23_LockDiscipline ==
    /\ LockDiscipline
    /\ OnlyOwnNodeBlocks
    /\ NoDeadlock

\* a StoreEvent on one node can take the lock of its node while the other
\* goroutine writes, under its lock, the slots of another node
C23_Witness ==
    \E t \in Goroutines :
        /\ pc[t] = "nsLock"
        /\ pc[Other(t)] = "writing"
        /\ nsp[Other(t)] # nsp[t]
        /\ ENABLED NodeLock(t)

\* the steps of a GetEvents call of t
ReaderStep(t) ==
    \/ GetCall(t)
    \/ GetRLock(t)
    \/ GetSnapshot(t)
    \/ GetNodeRLock(t)
    \/ GetNodeRead(t)
    \/ GetReturn(t)

\* t's GetEvents call is about to return and no StoreEvent has changed the
\* store since the call began (a store never returns to an earlier state)
ReadUndisturbed(t) ==
    /\ pc[t] = "gdone"
    /\ Deref(gseen[t]) = [records |-> records, nodes |-> nodes]

\* the stored events of the kind whose node pubkey the filter admits
StoredOfKind(kind, pubKeys) ==
    {e \in UNION {{nodes[records[p]].events[d] :
                      d \in DOMAIN nodes[records[p]].events} :
                  p \in {q \in DOMAIN records : pubKeys = {} \/ q \in pubKeys}} :
        e.kind = kind}

ReturnsExactly(t) ==
    /\ {gres[t][i] : i \in DOMAIN gres[t]}
          = StoredOfKind(Deref(garg[t]).kind, Deref(garg[t]).pubKeys)
    /\ \A i, j \in DOMAIN gres[t] : i # j => gres[t][i] # gres[t][j]

\* C24: GetEvents(kind, filter) returns exactly the stored events whose
\* logical kind is kind and whose node pubkey is in filter, an empty filter
\* admitting every node; it returns each of them once; and no step of it
\* changes the node entries, the slots or the announcement state of a node
C24_GetEventsExact ==
    /\ [](\A t \in Goroutines : ReadUndisturbed(t) => ReturnsExactly(t))
    /\ [][\A t \in Goroutines :
              ReaderStep(t) => UNCHANGED <<records, nodes>>]_vars

\* a call with the filter {P} returns events of P while the store holds an
\* event of that kind of node Q as well
C24_Witness ==
    \E t \in Goroutines :
        /\ ReadUndisturbed(t)
        /\ Deref(garg[t]).pubKeys = {NodeP}
        /\ gres[t] # <<>>
        /\ StoredOfKind(Deref(garg[t]).kind, {NodeQ}) # {}

(***************************************************************************)
(* Node creation under concurrent StoreEvent calls (specification          *)
(* SpecConc).                                                              *)
(***************************************************************************)
\* every node state allocated so far is the node state of one pubkey
OneNodeStatePerPubKey ==
    /\ Cardinality(DOMAIN records) = Len(nodes)
    /\ {records[p] : p \in DOMAIN records} = DOMAIN nodes

\* the node state a call got from getNodeState is the one of its pubkey
SameInstance ==
    \A t \in Goroutines :
        nsp[t] # 0 =>
            /\ CurId(t).PubKey \in DOMAIN records
            /\ nsp[t] = records[CurId(t).PubKey]

\* a call that returns no error leaves its record in the slot of the node
\* state of its pubkey
AcceptedIsStored(t) ==
    (pc[t] = "locked" /\ pc'[t] = "done" /\ ret'[t] = NoError) =>
        LET ns == nodes'[records'[CurId(t).PubKey]]
        IN  /\ CurId(t).TagD \in DOMAIN ns.events
            /\ ns.events[CurId(t).TagD] = CurEv(t)

\* C25: under any interleaving of concurrent StoreEvent calls for one
\* Lightning-node pubkey exactly one node state is ever created for that
\* pubkey and every caller operates on that instance, so that no accepted
\* record is lost to a discarded duplicate node state
C25_DoubleCheckedCreation ==
    /\ [](OneNodeStatePerPubKey /\ SameInstance)
    /\ [][\A t \in Goroutines : AcceptedIsStored(t)]_vars

\* a goroutine that missed the node state under the read lock holds the
\* write lock and finds that the other goroutine has created it meanwhile
C25_Witness ==
    \E t \in Goroutines :
        /\ pc[t] = "create"
        /\ smu.writer = t
        /\ CurId(t).PubKey \in DOMAIN records

(***************************************************************************)
(* Reads of a node during a key rotation (specification SpecConcRead).     *)
(***************************************************************************)
\* a node state as a completed StoreEvent leaves it: empty and unbound, or
\* holding the trust anchor of the bound identity and records signed by
\* that identity only
Complete(ns) ==
    \/ ns = newNodeState
    \/ /\ \E d \in DOMAIN ns.events :
             /\ ns.events[d].kind = KindNodeAnnouncement
             /\ ns.events[d].NostrEvent.CreatedAt = ns.lastAnnouncement.createdAt
       /\ \A d \in DOMAIN ns.events :
             ns.events[d].NostrEvent.PubKey = ns.lastAnnouncement.pub

\* a StoreEvent is between taking and releasing the lock of node state i
WriterInside(i) ==
    \E u \in Goroutines : pc[u] \in {"locked", "writing"} /\ nsp[u] = i

\* t's GetEvents call collects the events of a node state in this step
ReadsNode(t) == pc[t] = "gNodeRead" /\ pc'[t] # "gNodeRead"

\* the events t's call has collected for one node are signed by one identity
OneIdentityPerNode(t) ==
    \A i, j \in DOMAIN gres[t] :
        Deref(GetIdentifier(gres[t][i]).id).PubKey
            = Deref(GetIdentifier(gres[t][j]).id).PubKey
        => gres[t][i].NostrEvent.PubKey = gres[t][j].NostrEvent.PubKey

\* C26: GetEvents running concurrently with a StoreEvent that rotates the
\* bound identity of node P never observes an intermediate state of P: the
\* node state it reads is the complete one before or after the rotation,
\* and what it returns for P never holds both a record signed by the old
\* identity and the trust anchor of the new one
C26_AtomicNodeRead ==
    /\ [][\A t \in Goroutines :
             ReadsNode(t) =>
                /\ ~WriterInside(nsp[t])
                /\ Complete(nodes[nsp[t]])
                /\ nodes'[nsp[t]] = nodes[nsp[t]]
                /\ \E evs \in eventsOfKind(nodes[nsp[t]],
                                             Deref(garg[t]).kind) :
                       gres'[t] = gres[t] \o evs]_vars
    /\ [](\A t \in Goroutines : OneIdentityPerNode(t))

\* a GetEvents call is about to take the read lock of node P while a
\* StoreEvent that rotates P's identity has purged the slots and not yet
\* written the new trust anchor
C26_Witness ==
    \E t \in Goroutines, u \in Goroutines :
        /\ pc[t] = "gNodeRLock"
        /\ pc[u] = "writing"
        /\ nsp[u] = nsp[t]
        /\ CurEv(u).kind = KindNodeAnnouncement
        /\ nodes[nsp[u]].lastAnnouncement.pub = KeyA
        /\ CurEv(u).NostrEvent.PubKey = KeyB
        /\ nodes[nsp[u]].events = EmptyMap

(***************************************************************************)
(* What Client.GetEvents hands to StoreEvent (specification SpecSync).     *)
(***************************************************************************)
\* the log entries of the records StoreEvent was called with
StoreInvoked == {i \in DOMAIN slog : slog[i].outcome \in {"store", "stored"}}

\* the record parses and Verify returns (true, nil) for it
ParsedAndVerified(ne) ==
    /\ NewEventFromNostrRelay(Rec(ne)).err = NoError
    /\ Verify(EventOf(ne), VerifyNow).valid
    /\ Verify(EventOf(ne), VerifyNow).err = NoError

\* the records of the relays that parse and that Verify accepts, each with
\* the Event StoreEvent holds of it
VerifiedRecords == {ne \in DOMAIN SyncRecords : ParsedAndVerified(ne)}
VerifiedEvent ==
    [ne \in VerifiedRecords |->
        GetIdentifier(Verify(EventOf(ne), VerifyNow).e).e]

\* the events in the slots of the store
StoredEvents ==
    UNION {{nodes[i].events[d] : d \in DOMAIN nodes[i].events} :
              i \in DOMAIN nodes}

\* the records StoreEvent was called with: those of the log, and the one
\* whose call is running
Invoked == {slog[i].ne : i \in StoreInvoked}
                \cup (IF sne = Nil THEN {} ELSE {Deref(sne)})

\* the records StoreEvent has accepted, or may have in its running call
MayBeStored == {slog[i].ne : i \in Accepted}
                    \cup (IF sne = Nil THEN {} ELSE {Deref(sne)})

\* StoreEvent is running, for the Event that Verify accepted of the record
\* in sne
InStoreEvent ==
    /\ spc.at = "store"
    /\ sne # Nil
    /\ Deref(sne) \in VerifiedRecords
    /\ cur[SyncCaller] = Ptr(VerifiedEvent[Deref(sne)])

\* C27: the sync pipeline calls StoreEvent only for a record that was
\* parsed successfully and for which Verify returned valid = true with no
\* error; the store changes only in such a call, and every event in the
\* store is such a record
C27_StoresOnlyVerified ==
    /\ [](Invoked \subseteq VerifiedRecords)
    /\ [](\A e \in StoredEvents :
             \E ne \in MayBeStored \cap VerifiedRecords :
                e = VerifiedEvent[ne])
    /\ [][/\ <<records, nodes>>' # <<records, nodes>> => InStoreEvent
          /\ (sne' # sne /\ sne' # Nil) => Deref(sne') \in VerifiedRecords
          /\ (spc.at = "store" /\ spc'.at # "store") =>
                /\ Len(slog') = Len(slog) + 1
                /\ Len(slog') \in StoreInvoked'
                /\ slog'[Len(slog')].ne = Deref(sne)]_vars

\* a call has ended in which a record failed parsing, a record failed
\* Verify without an error, and a record was stored
C27_Witness ==
    /\ SyncDone
    /\ \E i \in DOMAIN slog : slog[i].outcome = "parse"
    /\ \E i \in DOMAIN slog :
          /\ slog[i].outcome = "verify"
          /\ Verify(EventOf(slog[i].ne), VerifyNow).err = NoError
    /\ Accepted # {}
    /\ StoredEvents # {}

(***************************************************************************)
(* Fatal errors of Client.GetEvents (specification SpecSync).              *)
(***************************************************************************)
\* the call has returned a fatal error
FatalReturn == SyncDone /\ Deref(sret).err # NoError

\* C28: when either pass ends with a fatal error the call returns the error
\* with no events and no warnings, whatever warnings were collected in the
\* failing pass or in a completed first pass; a fatal error in the
\* trust-anchor pass is returned before the second pass is started; a call
\* without fatal error returns the warnings of its passes
C28_FatalDistinctFromWarnings ==
    /\ FatalReturn =>
          /\ Deref(sret).events = <<>>
          /\ Deref(sret).warnings = 0
          /\ Deref(sret).err = ErrFetchAnnouncements <=> spc.pass = 1
          /\ Deref(sret).err = ErrFetchKind <=> spc.pass = 2
          /\ spc.pass = 1 => ~PassRun(2) /\ LogOf(2) = {}
    /\ (SyncDone /\ ~FatalReturn) =>
          Deref(sret).warnings = swarn.total

\* the second pass has ended with a fatal error after a first pass that
\* completed with warnings, and with warnings of its own
C28_Witness ==
    /\ FatalReturn
    /\ spc.pass = 2
    /\ swarn.total > 0
    /\ swarn.local > 0
    /\ Deref(sret).warnings = 0

(***************************************************************************)
(* The Lightning signature as a matter of the kind (specification          *)
(* SpecPublish).                                                           *)
(***************************************************************************)
\* event e with other tags, its ID and nostr signature made anew for them
\* when they fitted the tags it had
Retagged(e, tags) ==
    LET ne == e.NostrEvent
        re == [ne EXCEPT !.Tags = tags]
    IN  [e EXCEPT !.NostrEvent =
            [re EXCEPT !.ID = Ptr(GetID(re)),
                       !.Sig = IF ne.Sig # Nil /\ Deref(ne.Sig).msg = GetID(ne)
                               THEN Ptr([Deref(ne.Sig) EXCEPT !.msg = GetID(re)])
                               ELSE ne.Sig]]

\* the tags of e with its 'sig' tags removed, and with 'sig' tags added
SigTagVariants(e) ==
    LET tags == e.NostrEvent.Tags
        junk == <<TagSig, Str("junk")>>
        lnsig == <<TagSig, LnSignMessage(LnSignerKey, Hash(e))>>
    IN  {WithoutSigTags(tags), tags \o <<junk>>, tags \o <<lnsig>>,
         tags \o <<junk, lnsig>>}

\* what Verify returns
Outcome(e) ==
    LET v == Verify(e, VerifyNow) IN [valid |-> v.valid, err |-> v.err]

\* Verify returns for e what it returns for e with other 'sig' tags
SigTagsIrrelevant(e) ==
    e.NostrEvent.ID = Ptr(GetID(e.NostrEvent)) =>
        \A tags \in SigTagVariants(e) : Outcome(Retagged(e, tags)) = Outcome(e)

\* Verify accepts e only with one 'sig' tag that holds the signature of the
\* node of the 'd' tag over Hash(e)
LnSigChecked(e) ==
    Outcome(e).valid =>
        /\ SigTagCount(e) = 1
        /\ FindAll(e.NostrEvent.Tags, TagSig)[1][2]
              = LnSignMessage(Deref(GetIdentifier(e).id).PubKey, Hash(e))
        /\ Outcome(Retagged(e, WithoutSigTags(e.NostrEvent.Tags)))
              = [valid |-> FALSE, err |-> ErrNoSig]

\* C29: SignEvent calls the Lightning signer and appends a 'sig' tag, and
\* Verify checks the Lightning signature, exactly for an event whose kind
\* is the trust-anchor kind; for any other kind the Lightning signer is not
\* called, no 'sig' tag is added, and what Verify returns does not depend
\* on the 'sig' tags of the event once ID and nostr signature fit the tags
C29_LnSignaturePerKind ==
    /\ [](LET e == Deref(pev)
          IN  /\ (\E i \in DOMAIN pcalls : pcalls[i] = "ln")
                    => RequiresLnSignature(e)
              /\ (SignEventReturned /\ pops[Len(pops)].err = NoError)
                    => (RequiresLnSignature(e)
                           <=> \E i \in DOMAIN pcalls : pcalls[i] = "ln")
              /\ IF e.kind = KindNodeAnnouncement
                 THEN LnSigChecked(e)
                 ELSE SigTagsIrrelevant(e))
    /\ [][SigTagCount(Deref(pev')) # SigTagCount(Deref(pev)) =>
             /\ Deref(pev).kind = KindNodeAnnouncement
             /\ ppc = "signWithLn"
             /\ Deref(pev').NostrEvent.Tags =
                   Append(Deref(pev).NostrEvent.Tags,
                          <<TagSig, LnSignMessage(LnSignerKey,
                                                  Hash(Deref(pev)))>>)]_vars

\* Verify has accepted a Node Info that carries a 'sig' tag and that
\* SignEvent signed without calling the Lightning signer
C29_Witness ==
    /\ Len(pops) = MaxPublishOps
    /\ pops[Len(pops)] = Returned("Verify", NoError, TRUE)
    /\ Deref(pev).kind = KindNodeInfo
    /\ SigTagCount(Deref(pev)) = 1
    /\ pcalls = <<"nostr">>

(***************************************************************************)
(* Event.Hash and the 'sig' tags (specification SpecPublish).              *)
(***************************************************************************)
\* event e with other tags
WithTags(e, tags) == [e EXCEPT !.NostrEvent.Tags = tags]

\* tags named "sig", with a value and without one
SomeSigTags == {<<TagSig, Str("junk")>>, <<TagSig, Str("old")>>, <<TagSig>>}

\* Hash(e) is the same with 'sig' tags removed, and with 'sig' tags added
\* in front, behind and both
HashIgnoresSigTags(e) ==
    LET tags == e.NostrEvent.Tags
    IN  /\ Hash(WithTags(e, WithoutSigTags(tags))) = Hash(e)
        /\ \A s \in SomeSigTags, t \in SomeSigTags :
              /\ Hash(WithTags(e, tags \o <<s>>)) = Hash(e)
              /\ Hash(WithTags(e, <<s>> \o tags)) = Hash(e)
              /\ Hash(WithTags(e, <<s>> \o tags \o <<t>>)) = Hash(e)

\* the places of the tags of e that are not named "sig"
OtherTags(e) ==
    {i \in DOMAIN e.NostrEvent.Tags :
        ~(Len(e.NostrEvent.Tags[i]) > 0 /\ e.NostrEvent.Tags[i][1] = TagSig)}

\* the sequence without its i-th element
Without(s, i) == SubSeq(s, 1, i - 1) \o SubSeq(s, i + 1, Len(s))

\* Hash(e) is another one when PubKey, CreatedAt, Content or a tag not named
\* "sig" is another one
HashCoversTheRest(e) ==
    LET ne == e.NostrEvent
    IN  /\ \A pk \in {KeyA, KeyB, EmptyStr} \ {ne.PubKey} :
              Hash([e EXCEPT !.NostrEvent.PubKey = pk]) # Hash(e)
        /\ Hash([e EXCEPT !.NostrEvent.CreatedAt = @ + 1]) # Hash(e)
        /\ \A c \in VerifyContents \ {ne.Content} :
              Hash([e EXCEPT !.NostrEvent.Content = c]) # Hash(e)
        /\ Hash(WithTags(e, ne.Tags \o <<<<Str("x"), Str("y")>>>>)) # Hash(e)
        /\ \A i \in OtherTags(e) :
              /\ Hash(WithTags(e, Without(ne.Tags, i))) # Hash(e)
              /\ Hash(WithTags(e, [ne.Tags EXCEPT ![i] =
                                      Append(@, Str("more"))])) # Hash(e)

\* SignEvent has returned nil for a Node Announcement
AnchorSigned ==
    /\ SignEventReturned
    /\ pops[Len(pops)].err = NoError
    /\ Deref(pev).kind = KindNodeAnnouncement

\* the hash the Lightning signer was given is Hash of the signed event
SignedHashIsVerifiedHash ==
    LET e == Deref(pev)
        sig == FindAll(e.NostrEvent.Tags, TagSig)[1][2]
    IN  sig[Len(sig)] = ToString(Hash(e))

\* signWithLn leaves Hash(ev) as it is when it appends the 'sig' tag
AppendKeepsHash ==
    (ppc = "signWithLn" /\ SigTagCount(Deref(pev')) # SigTagCount(Deref(pev)))
        => Hash(Deref(pev')) = Hash(Deref(pev))

\* the statement as the specification words it: for every event
C30_Original ==
    /\ AnchorSigned => SignedHashIsVerifiedHash
    /\ HashIgnoresSigTags(Deref(pev))
    /\ HashCoversTheRest(Deref(pev))

\* C30: Hash ignores 'sig' tags: for every event whose PubKey is the nostr
\* signer's key when SignEvent is called, the hash the Lightning signer
\* signs before the 'sig' tag is appended equals the hash of the fully
\* signed event; adding or removing any number of tags named "sig" never
\* changes the hash, while a change to PubKey, CreatedAt, Content or any
\* other tag does
C30_HashIgnoresSigTags ==
    /\ []((AnchorSigned /\ Deref(pin).pub = NostrSignerKey)
             => SignedHashIsVerifiedHash)
    /\ [](HashIgnoresSigTags(Deref(pev)) /\ HashCoversTheRest(Deref(pev)))
    /\ [][AppendKeepsHash]_vars

\* a Node Announcement created with the signer's PubKey is fully signed, and
\* the hash signed by the Lightning signer is the one Verify computes
C30_Witness ==
    /\ AnchorSigned
    /\ Deref(pin).pub = NostrSignerKey
    /\ SignedHashIsVerifiedHash
    /\ Hash(Deref(pev)) # GetID(Deref(pev).NostrEvent)

(***************************************************************************)
(* Event.Finalize, call by call (specification SpecPublish).               *)
(***************************************************************************)
\* e carries a tag named "d" or "k", with or without a value
CarriesTagDK(e) ==
    \E i \in DOMAIN e.NostrEvent.Tags :
        /\ Len(e.NostrEvent.Tags[i]) >= 1
        /\ e.NostrEvent.Tags[i][1] \in {TagD, TagK}

\* e carries a tag named "d" or "k" that has a value
CarriesValuedTagDK(e) ==
    Find(e.NostrEvent.Tags, TagD) # Nil \/ Find(e.NostrEvent.Tags, TagK) # Nil

\* this step is a call of Finalize
FinalizeCalled ==
    /\ Len(pops') = Len(pops) + 1
    /\ pops'[Len(pops')].op = "Finalize"

\* Finalize has failed and left the event as it was
FinalizeRejected ==
    /\ pops'[Len(pops')].err \in {ErrHasTagD, ErrHasTagK}
    /\ pev' = pev

\* Finalize has appended one 'd' tag and one 'k' tag, set the wire kind and
\* the finalized flag, and left the rest of the event as it was
FinalizeApplied ==
    LET e  == Deref(pev)
        e2 == Deref(pev')
        n  == Len(e.NostrEvent.Tags)
    IN  /\ pops'[Len(pops')].err = NoError
        /\ Len(e2.NostrEvent.Tags) = n + 2
        /\ SubSeq(e2.NostrEvent.Tags, 1, n) = e.NostrEvent.Tags
        /\ Len(e2.NostrEvent.Tags[n + 1]) = 2
        /\ e2.NostrEvent.Tags[n + 1][1] = TagD
        /\ e2.NostrEvent.Tags[n + 2] = <<TagK, Itoa(Deref(pin).kind)>>
        /\ e2.NostrEvent.Kind = KindLightningInformation
        /\ e2.finalized
        /\ e2.kind = Deref(pin).kind
        /\ [e2.NostrEvent EXCEPT !.Tags = <<>>, !.Kind = 0]
              = [e.NostrEvent EXCEPT !.Tags = <<>>, !.Kind = 0]

\* the statement as the specification words it: any tag named "d" or "k"
\* makes Finalize fail
C31_Original ==
    [][FinalizeCalled =>
          /\ IF CarriesTagDK(Deref(pev)) THEN FinalizeRejected
             ELSE FinalizeApplied
          /\ Deref(pev).finalized => FinalizeRejected]_vars

\* C31: Finalize rejects with DuplicateTag an event that already carries a
\* "d" or a "k" tag with a value and then leaves the event's tags, wire
\* kind and finalized flag unchanged; otherwise it appends exactly one "d"
\* tag and one "k" tag, sets the wire kind to the single registered network
\* kind and marks the event finalized, so a second Finalize on the same
\* event always fails
C31_FinalizeOnce ==
    [][FinalizeCalled =>
          /\ IF CarriesValuedTagDK(Deref(pev)) THEN FinalizeRejected
             ELSE FinalizeApplied
          /\ Deref(pev).finalized => FinalizeRejected]_vars

\* an event that carried a 'd' tag without value was finalized, and the
\* second Finalize failed and left it as it was
C31_Witness ==
    /\ Len(pops) >= 2
    /\ pops[1] = Returned("Finalize", NoError, FALSE)
    /\ pops[2] = Returned("Finalize", ErrHasTagD, FALSE)
    /\ Deref(pev).NostrEvent.Tags[1] = <<TagD>>
    /\ Deref(pev).finalized
    /\ Len(Deref(pev).NostrEvent.Tags) = 3

(***************************************************************************)
(* Node entries (specification Spec).                                      *)
(***************************************************************************)
\* every node entry stays, and stays the same nodeState
EntriesKept ==
    /\ DOMAIN records \subseteq DOMAIN records'
    /\ \A p \in DOMAIN records : records'[p] = records[p]
    /\ Len(nodes') >= Len(nodes)

\* goroutine t runs lines 115-123 of getNodeState in this step
CreateStep(t) == pc[t] = "create" /\ pc'[t] = "nsLock"

\* a step that adds an entry is the getNodeState of a call, adds the entry
\* of the pubkey of the call's record only, and adds it empty
EntryCreatedByCall ==
    DOMAIN records' # DOMAIN records =>
        \E t \in Goroutines :
            /\ CreateStep(t)
            /\ DOMAIN records' = DOMAIN records \cup {CurId(t).PubKey}
            /\ nodes'[records'[CurId(t).PubKey]] = newNodeState

\* when the record of t's call is validated, the entry of its pubkey
\* exists and is the node state the call works on; a rejected record
\* leaves the entry, empty when it was empty
EntryBeforeValidation(t) ==
    /\ CurId(t).PubKey \in DOMAIN records
    /\ records[CurId(t).PubKey] = nsp[t]
    /\ Err(t) # NoError
           => /\ CurId(t).PubKey \in DOMAIN records'
              /\ Post(t) = Pre(t)

\* t's step stores an announcement that replaces the bound identity
PurgeStep(t) ==
    /\ BodyStep(t)
    /\ Err(t) = NoError
    /\ IsAnnouncement(RecOf(t))
    /\ Pre(t).lastAnnouncement.pub # Signer(RecOf(t))

\* the purge keeps the entry; the new trust anchor is its only slot
PurgeKeepsEntry(t) ==
    LET p == CurId(t).PubKey
    IN  /\ p \in DOMAIN records'
        /\ records'[p] = records[p]
        /\ DOMAIN Post(t).events = {p}
        /\ Post(t).events[p] = RecOf(t)
        /\ Post(t).lastAnnouncement = [createdAt |-> CreatedAt(RecOf(t)),
                                       pub |-> Signer(RecOf(t))]

\* C32: node entries are created lazily and never removed: the set of node
\* pubkeys in the store only grows and a call creates at most the entry of
\* its record's pubkey; a compromise purge empties the slot map of the node
\* (the new trust anchor is its only slot) and keeps the node entry, with
\* the announcement state of the new announcement; StoreEvent creates the
\* entry before it validates the record, so a rejected record for an unseen
\* pubkey leaves an empty node entry
C32_EntriesOnlyGrow ==
    /\ [][EntriesKept /\ EntryCreatedByCall]_vars
    /\ [][\A t \in Goroutines :
             BodyStep(t) => EntryBeforeValidation(t)]_vars
    /\ [][\A t \in Goroutines : PurgeStep(t) => PurgeKeepsEntry(t)]_vars

\* a rejected record has left an empty entry for node Q, and node P, whose
\* slots were purged by a change of identity, has kept its entry
C32_Witness ==
    /\ NodeQ \in DOMAIN records
    /\ nodes[records[NodeQ]] = newNodeState
    /\ \E t \in Goroutines :
          /\ Ran(t) /\ ret[t] # NoError
          /\ CurId(t).PubKey = NodeQ
    /\ NodeP \in DOMAIN records
    /\ displaced[NodeP][KeyA] > 0
    /\ nodes[records[NodeP]].lastAnnouncement.pub = KeyB

(***************************************************************************)
(* Rejected StoreEvent calls (specification SpecConc).                     *)
(***************************************************************************)
StoreErrors ==
    {ErrMissingTagD, ErrMissingTagK, ErrInvalidKind, ErrInvalidTagDFormat,
     ErrStaleAnnouncement, ErrUntrustedSigner, ErrStaleRecord}

\* t's call returns in this step, with an error
ReturnsError(t) == pc[t] # "done" /\ pc'[t] = "done" /\ ret'[t] # NoError

\* t's call returns in this step, without error
ReturnsNil(t) == pc[t] # "done" /\ pc'[t] = "done" /\ ret'[t] = NoError

\* the announcement state and the slots of every node are left as they are;
\* a node state created in the step is an empty one
NodesUntouched ==
    /\ \A i \in DOMAIN nodes : nodes'[i] = nodes[i]
    /\ Len(nodes') > Len(nodes) => nodes' = Append(nodes, newNodeState)
    /\ \A p \in {NodeP, NodeQ} :
          NodeView(records', nodes', p) = NodeView(records, nodes, p)

\* C33: rejection leaves state unchanged: a StoreEvent call that returns an
\* error (malformed identifier, StaleAnnouncement, UntrustedSigner or
\* StaleRecord) changes neither the announcement state nor the slots of any
\* node: the step in which it returns changes none, and the only steps that
\* change one are those in which a call returns nil
C33_RejectionLeavesState ==
    /\ [][\A t \in Goroutines :
             ReturnsError(t) => (ret'[t] \in StoreErrors /\ NodesUntouched)]_vars
    /\ [][NodesUntouched \/ \E t \in Goroutines : ReturnsNil(t)]_vars

\* a call with a malformed identifier and a call with a stale announcement
\* have returned their errors, and the node holds what was stored before
C33_Witness ==
    \E t \in Goroutines :
        /\ pc[t] = "done"
        /\ ret[t] = ErrMissingTagD
        /\ pc[Other(t)] = "done"
        /\ ret[Other(t)] = ErrStaleAnnouncement
        /\ NodeP \in DOMAIN records
        /\ nodes[records[NodeP]].lastAnnouncement.createdAt > 0
        /\ Cardinality(DOMAIN nodes[records[NodeP]].events) = 2

(***************************************************************************)
(* Announcement state and trust-anchor slot (specification Spec).          *)
(***************************************************************************)
\* the slot keys of node state ns that hold a trust-anchor event
AnchorSlots(ns) ==
    {d \in DOMAIN ns.events :
        \/ ns.events[d].kind = KindNodeAnnouncement
        \/ Deref(GetIdentifier(ns.events[d]).id).Kind = KindNodeAnnouncement}

\* the trust anchor of node p is in slot p and is the announcement that
\* lastAnnouncement names; without announcement there is none
AnchorConsistent(p) ==
    LET ns == nodes[records[p]]
    IN  IF ns.lastAnnouncement.createdAt # 0
        THEN /\ AnchorSlots(ns) = {p}
             /\ CreatedAt(ns.events[p]) = ns.lastAnnouncement.createdAt
             /\ Signer(ns.events[p]) = ns.lastAnnouncement.pub
        ELSE /\ AnchorSlots(ns) = {}
             /\ ns.lastAnnouncement = newNodeState.lastAnnouncement

\* what node p holds in its trust-anchor slot, nil when nothing
AnchorOf(recs, nds, p) ==
    IF p \in DOMAIN recs /\ p \in DOMAIN nds[recs[p]].events
    THEN Ptr(nds[recs[p]].events[p]) ELSE Nil

\* C34: in every reachable state a node whose lastAnnouncement.createdAt is
\* non-zero holds exactly one trust-anchor event, in the slot of its own
\* pubkey, whose created_at and PubKey are those of lastAnnouncement; a node
\* with no accepted announcement holds no trust-anchor event; and the only
\* steps that change the trust-anchor slot of a node are those that store
\* an announcement
C34_AnchorConsistency ==
    /\ [](\A p \in DOMAIN records : AnchorConsistent(p))
    /\ [][(\E p \in {NodeP, NodeQ} :
                AnchorOf(records', nodes', p) # AnchorOf(records, nodes, p))
             => \E t \in Goroutines :
                    BodyStep(t) /\ IsAnnouncement(RecOf(t))]_vars

\* node P, rebound from A to B, holds its trust anchor by B and a Node Info
\* that a call has stored since
C34_Witness ==
    /\ NodeP \in DOMAIN records
    /\ displaced[NodeP][KeyA] > 0
    /\ nodes[records[NodeP]].lastAnnouncement.pub = KeyB
    /\ Cardinality(DOMAIN nodes[records[NodeP]].events) = 2
    /\ \E t \in Goroutines :
          /\ Ran(t) /\ ~IsAnnouncement(RecOf(t))
          /\ ret[t] = NoError
          /\ CurId(t).PubKey = NodeP

(***************************************************************************)
(* Rollback of a slot (specification SpecRollback).                        *)
(***************************************************************************)
\* the slots of node p a record was ever accepted into
SlotsEver(p) == DOMAIN high[p]

\* no record was accepted into slot d of p with a created_at not above one
\* accepted into it before
NoRollbackEver(p, d) == ~high[p][d].belowEver

\* the same, counting from the last purge of p's slots
NoRollbackSincePurge(p, d) == ~high[p][d].belowSince

\* the statement as the specification words it: purges included
C35_Original ==
    \A p \in DOMAIN high : \A d \in SlotsEver(p) : NoRollbackEver(p, d)

\* C35: once a record with created_at t has been accepted into slot s of
\* node P, no record with created_at less than or equal to t is accepted
\* into slot s of P afterwards, unless P's slots were purged by a change of
\* bound identity in between; for the trust-anchor slot this holds across
\* purges as well
C35_RollbackResistance ==
    \A p \in DOMAIN high : \A d \in SlotsEver(p) :
        /\ NoRollbackSincePurge(p, d)
        /\ d = p => NoRollbackEver(p, d)

\* after a change of P's bound identity a record was accepted into a slot
\* of P, and a record for that slot with a created_at not above it has
\* been rejected
C35_Witness ==
    /\ displaced[NodeP][KeyA] > 0
    /\ \E t \in Goroutines :
          /\ Ran(t) /\ ret[t] = ErrStaleRecord
          /\ CurId(t).PubKey = NodeP
          /\ CurId(t).TagD \in SlotsEver(NodeP)
          /\ high[NodeP][CurId(t).TagD].since >= CreatedAt(RecOf(t))
          /\ high[NodeP][CurId(t).TagD].since > 0
          /\ high[NodeP][NodeP].ever > 1

=============================================================================
